---- MODULE Spec2Model ----
(***************************************************************************)
(* GlowMatch ml-service: the skin-tone classification core.                *)
(*                                                                         *)
(* Numbers.  The code works on numpy arrays of pixel samples and on        *)
(* floating-point means.  A sample array is written here as a record       *)
(* [a, b, p, q, m]: m repetitions of a block of p samples of value a       *)
(* followed by q samples of value b.  A mean is the exact rational         *)
(* <<numerator, denominator>> (denominator > 0) and is compared with a     *)
(* threshold by cross-multiplication, so fractional means are decided as   *)
(* the reals decide them.  The standard deviation is kept to one decimal   *)
(* (truncated), and a confidence is counted in units of 1/2550, the unit   *)
(* in which 1 - std/255 and the bonus 0.1 are whole numbers.               *)
(*                                                                         *)
(* A hex colour string '#RRGGBB' is written <<"#", "RRGGBB">>: its first   *)
(* character and the rest.                                                 *)
(***************************************************************************)
EXTENDS Integers, Sequences, FiniteSets, TLC

VARIABLES
    palettes,       \* SkinToneAnalyzer.palettes
    ext_palettes,   \* ExtendedSkinToneAnalyzer.palettes
    pc,             \* "call": the operation is about to run; "done": it has returned;
                    \* "mutated": the caller has written into what it returned
    fn,             \* the operation called
    arg,            \* its arguments
    ret,            \* what it returned
    face_detector,  \* SkinToneAnalyzer.face_detector
    calls,          \* the methods analyze_skin_tone invoked, in order
    aliases,        \* the lists of ret that are list objects of the palette table
    served          \* the images of the requests served before this one

vars == <<palettes, ext_palettes, pc, fn, arg, ret, face_detector, calls, aliases, served>>

----------------------------------------------------------------------------
(* Bounds of the model *)

\* longest run of equal samples inside one block of a sample array
MaxRun == 2

\* hue samples range over HuePeriods turns of the OpenCV hue scale (180 per turn)
HuePeriods == 3

\* the most requests one analyzer serves in a session
MaxRequests == 3

----------------------------------------------------------------------------
(* numpy arrays and arithmetic *)

\* block repetitions: pixel counts around the thresholds 100 and 500
Reps == {1, 33, 50, 99, 100, 167, 250, 499, 500, 501}

Arrays(Samples, Repeat) ==
    { [a |-> x, b |-> y, p |-> p, q |-> q, m |-> m] :
        x \in Samples, y \in Samples, p \in 1..MaxRun, q \in 0..MaxRun, m \in Repeat }

\* arrays whose mean runs through the sample range in fractional steps
Ramps(Samples, Repeat) ==
    { [a |-> x, b |-> x + 1, p |-> p, q |-> q, m |-> m] :
        x \in Samples, p \in 1..MaxRun, q \in 0..MaxRun, m \in Repeat }

len(arr) == arr.m * (arr.p + arr.q)

sum(arr) == arr.m * (arr.p * arr.a + arr.q * arr.b)

\* np.mean, as an exact rational
mean(arr) == <<sum(arr), len(arr)>>

Scale(arr, k) == [arr EXCEPT !.a = k * arr.a, !.b = k * arr.b]

GT(r, t) == r[1] > t * r[2]
GE(r, t) == r[1] >= t * r[2]
LE(r, t) == r[1] <= t * r[2]
LT(r, t) == r[1] < t * r[2]

\* float % n for n > 0: the result lies in [0, n)
Mod(r, n) == <<r[1] % (n * r[2]), r[2]>>

\* int(x) for x >= 0
Trunc(r) == r[1] \div r[2]

\* In(value), with value worked out once however often In uses it
Once(value, In(_)) == CHOOSE result \in { In(v) : v \in {value} } : TRUE

Min2(x, y) == IF x <= y THEN x ELSE y
Max2(x, y) == IF x >= y THEN x ELSE y

----------------------------------------------------------------------------
(* ml_service.py: legacy classifiers *)

WARM_HUE_RANGE == <<0, 35>>
NEUTRAL_HUE_RANGE == <<35, 60>>
COOL_HUE_RANGE == <<340, 360>>

classify_depth_inclusive(value_values) ==
    LET mean_value == mean(value_values) IN
    IF GE(mean_value, 166) THEN "Fair"
    ELSE IF GE(mean_value, 115) THEN "Medium"
    ELSE "Dark"

classify_depth(value_values) ==
    LET mean_value == mean(value_values) IN
    IF GT(mean_value, 166) THEN "Fair"
    ELSE IF GT(mean_value, 115) THEN "Medium"
    ELSE "Dark"

\* the mean hue in degrees after the ">180 => -360" step
legacy_mean_hue(hue_values) ==
    LET hue_degrees == Scale(hue_values, 2)
        mean_hue == mean(hue_degrees)
    IN  IF GT(mean_hue, 180) THEN <<mean_hue[1] - 360 * mean_hue[2], mean_hue[2]>>
        ELSE mean_hue

classify_undertone(hue_values) ==
    LET mean_hue == legacy_mean_hue(hue_values)
        undertone ==
            IF GE(mean_hue, WARM_HUE_RANGE[1]) /\ LE(mean_hue, WARM_HUE_RANGE[2])
                THEN "Warm"
            ELSE IF GE(mean_hue, NEUTRAL_HUE_RANGE[1]) /\ LE(mean_hue, NEUTRAL_HUE_RANGE[2])
                THEN "Neutral"
            ELSE IF GE(mean_hue, COOL_HUE_RANGE[1]) \/ LE(mean_hue, COOL_HUE_RANGE[2] - 360)
                THEN "Cool"
            ELSE "Neutral"
    IN  [undertone |-> undertone, mean_hue |-> mean_hue]

----------------------------------------------------------------------------
(* config/skin_tone_enums.py *)

SkinDepth == {"Very Fair", "Fair", "Medium", "Tan", "Dark", "Deep"}

Undertone == {"Warm", "Cool", "Neutral", "Olive", "Golden"}

from_value(value) ==
    IF value > 210 THEN "Very Fair"
    ELSE IF value > 180 THEN "Fair"
    ELSE IF value > 140 THEN "Medium"
    ELSE IF value > 100 THEN "Tan"
    ELSE IF value > 60 THEN "Dark"
    ELSE "Deep"

Get(table, key, default) == IF key \in DOMAIN table THEN table[key] ELSE default

get_level_tan_5(depth) ==
    LET levels == [d \in SkinDepth |->
            CASE d = "Very Fair" -> 1 [] d = "Fair" -> 2 [] d = "Medium" -> 3
              [] d = "Tan" -> 5 [] d = "Dark" -> 4 [] d = "Deep" -> 6]
    IN  Get(levels, depth, 3)

get_level(depth) ==
    LET levels == [d \in SkinDepth |->
            CASE d = "Very Fair" -> 1 [] d = "Fair" -> 2 [] d = "Medium" -> 3
              [] d = "Tan" -> 4 [] d = "Dark" -> 5 [] d = "Deep" -> 6]
    IN  Get(levels, depth, 3)

get_percentile(depth) ==
    LET percentiles == [d \in SkinDepth |->
            CASE d = "Very Fair" -> <<82, 100>> [] d = "Fair" -> <<71, 82>>
              [] d = "Medium" -> <<55, 71>> [] d = "Tan" -> <<39, 55>>
              [] d = "Dark" -> <<24, 39>> [] d = "Deep" -> <<0, 24>>]
    IN  Get(percentiles, depth, <<39, 55>>)

from_hue_cool_340(hue_degrees) ==
    LET hue == Mod(hue_degrees, 360) IN
    IF (GE(hue, 0) /\ LE(hue, 30)) \/ (GE(hue, 360) /\ LE(hue, 360)) THEN "Warm"
    ELSE IF GT(hue, 30) /\ LE(hue, 60) THEN "Neutral"
    ELSE IF GT(hue, 60) /\ LE(hue, 90) THEN "Olive"
    ELSE IF GT(hue, 90) /\ LE(hue, 120) THEN "Golden"
    ELSE IF GE(hue, 340) /\ LT(hue, 360) THEN "Cool"
    ELSE "Neutral"

from_hue(hue_degrees) ==
    LET hue == Mod(hue_degrees, 360) IN
    IF (GE(hue, 0) /\ LE(hue, 30)) \/ (GE(hue, 360) /\ LE(hue, 360)) THEN "Warm"
    ELSE IF GT(hue, 30) /\ LE(hue, 60) THEN "Neutral"
    ELSE IF GT(hue, 60) /\ LE(hue, 90) THEN "Olive"
    ELSE IF GT(hue, 90) /\ LE(hue, 120) THEN "Golden"
    ELSE IF GE(hue, 330) /\ LT(hue, 360) THEN "Cool"
    ELSE "Neutral"

get_hue_range(undertone) ==
    LET ranges == [u \in Undertone |->
            CASE u = "Warm" -> <<0, 30>> [] u = "Cool" -> <<330, 360>>
              [] u = "Neutral" -> <<30, 60>> [] u = "Olive" -> <<60, 90>>
              [] u = "Golden" -> <<90, 120>>]
    IN  Get(ranges, undertone, <<30, 60>>)

UNDERTONE_HUE_RANGES ==
    ("Warm" :> <<0, 30>>) @@ ("Cool" :> <<330, 360>>) @@ ("Neutral" :> <<30, 60>>)
    @@ ("Olive" :> <<60, 90>>) @@ ("Golden" :> <<90, 120>>)

is_cool_spectrum_cool_only(undertone) == undertone = "Cool"

is_cool_spectrum(undertone) == undertone \in {"Cool", "Olive"}

is_warm_spectrum(undertone) == undertone \in {"Warm", "Golden"}

----------------------------------------------------------------------------
(* config/extended_analyzer.py: classifiers *)

classify_depth_extended(value_values) ==
    LET mean_value == mean(value_values)
        depth_enum == from_value(Trunc(mean_value))
    IN  [depth |-> depth_enum,
         level |-> get_level(depth_enum),
         percentile |-> get_percentile(depth_enum)]

classify_undertone_extended(hue_values) ==
    LET hue_degrees == Scale(hue_values, 2)
        mean_hue == Mod(mean(hue_degrees), 360)
        undertone_enum == from_hue(mean_hue)
    IN  [undertone |-> undertone_enum,
         mean_hue |-> mean_hue,
         is_cool |-> is_cool_spectrum(undertone_enum)]

----------------------------------------------------------------------------
(* ml_service.py: confidence *)

\* floor of the square root, by bisection on [lo, hi)
RECURSIVE Bisect(_, _, _)
Bisect(n, lo, hi) ==
    IF hi - lo <= 1 THEN lo
    ELSE LET mid == (lo + hi) \div 2 IN
         IF mid * mid <= n THEN Bisect(n, mid, hi) ELSE Bisect(n, lo, mid)

ISqrt(n) == Bisect(n, 0, 46341)

\* population variance mean(x^2) - mean(x)^2 as an exact rational; for the array
\* [a]*p + [b]*q repeated m times it is p*q*(a-b)^2 / (p+q)^2, whatever m is
variance(arr) ==
    <<arr.p * arr.q * (arr.a - arr.b) * (arr.a - arr.b), (arr.p + arr.q) * (arr.p + arr.q)>>

\* np.std in tenths, truncated: the square root of floor(100 * variance)
std10(arr) ==
    LET n == variance(arr)[1]
        d == variance(arr)[2]
    IN  ISqrt(100 * (n \div d) + (100 * (n % d)) \div d)

\* the confidence 1.0 in units of 1/2550
One == 255 * 10

calculate_confidence_ge(value_values, hue_values) ==
    LET value_std == std10(value_values)
        confidence == Max2(0, One - value_std)
    IN  IF len(hue_values) >= 500 THEN Min2(One, confidence + One \div 10)
        ELSE confidence

calculate_confidence_inverted(value_values, hue_values) ==
    LET value_std == std10(value_values)
        confidence == Max2(0, One - value_std)
    IN  IF len(hue_values) < 500 THEN Min2(One, confidence + One \div 10)
        ELSE confidence

calculate_confidence(value_values, hue_values) ==
    LET value_std == std10(value_values)
        confidence == Max2(0, One - value_std)
    IN  IF len(hue_values) > 500 THEN Min2(One, confidence + One \div 10)
        ELSE confidence

----------------------------------------------------------------------------
(* ml_service.py: the palette table and the recommendations *)

FairPalettes ==
    (<<"Fair", "Warm">> :>
        [clothing |->
            <<<<"#", "FFB347">>, <<"#", "FF8C00">>, <<"#", "CD853F">>, <<"#", "DEB887">>, <<"#", "F4A460">>, <<"#", "DAA520">>>>,
         makeup |->
            [foundation |-> <<<<"#", "F5DEB3">>, <<"#", "FFE4B5">>, <<"#", "FFDAB9">>>>,
             lipstick |-> <<<<"#", "FF6347">>, <<"#", "FF7F50">>, <<"#", "E75480">>>>,
             eyeshadow |-> <<<<"#", "FFD700">>, <<"#", "FFA500">>, <<"#", "FF8C00">>>>],
         jewelry |->
            [metals |-> <<<<"#", "FFD700">>, <<"#", "B76E79">>>>,
             stones |-> <<<<"#", "FF8C00">>, <<"#", "DAA520">>>>]])
    @@
    (<<"Fair", "Cool">> :>
        [clothing |->
            <<<<"#", "4B0082">>, <<"#", "00CED1">>, <<"#", "E0FFFF">>, <<"#", "B0E0E6">>, <<"#", "ADD8E6">>, <<"#", "87CEEB">>>>,
         makeup |->
            [foundation |-> <<<<"#", "E8E8E8">>, <<"#", "F5F5DC">>, <<"#", "FFFAFA">>>>,
             lipstick |-> <<<<"#", "FF1493">>, <<"#", "FF69B4">>, <<"#", "8B0000">>>>,
             eyeshadow |-> <<<<"#", "4B0082">>, <<"#", "8A2BE2">>, <<"#", "00CED1">>>>],
         jewelry |->
            [metals |-> <<<<"#", "C0C0C0">>, <<"#", "E8E8E8">>>>,
             stones |-> <<<<"#", "00CED1">>, <<"#", "FF69B4">>>>]])
    @@
    (<<"Fair", "Neutral">> :>
        [clothing |->
            <<<<"#", "DC143C">>, <<"#", "FF0000">>, <<"#", "FFFFFF">>, <<"#", "000000">>, <<"#", "808080">>, <<"#", "A9A9A9">>>>,
         makeup |->
            [foundation |-> <<<<"#", "F5DEB3">>, <<"#", "FAEBD7">>, <<"#", "F0F8FF">>>>,
             lipstick |-> <<<<"#", "DC143C">>, <<"#", "C71585">>, <<"#", "FF6347">>>>,
             eyeshadow |-> <<<<"#", "8B008B">>, <<"#", "FF0000">>, <<"#", "006666">>>>],
         jewelry |->
            [metals |-> <<<<"#", "FFD700">>, <<"#", "C0C0C0">>>>,
             stones |-> <<<<"#", "FF0000">>, <<"#", "006666">>>>]])

MediumPalettes ==
    (<<"Medium", "Warm">> :>
        [clothing |->
            <<<<"#", "8B4513">>, <<"#", "D2691E">>, <<"#", "CD853F">>, <<"#", "FF8C00">>, <<"#", "FFB347">>, <<"#", "DAA520">>>>,
         makeup |->
            [foundation |-> <<<<"#", "C9A877">>, <<"#", "D4A574">>, <<"#", "DEB887">>>>,
             lipstick |-> <<<<"#", "E75480">>, <<"#", "FF6347">>, <<"#", "FF8C00">>>>,
             eyeshadow |-> <<<<"#", "8B4513">>, <<"#", "CD853F">>, <<"#", "FFD700">>>>],
         jewelry |->
            [metals |-> <<<<"#", "FFD700">>, <<"#", "B76E79">>>>,
             stones |-> <<<<"#", "8B4513">>, <<"#", "FFD700">>>>]])
    @@
    (<<"Medium", "Cool">> :>
        [clothing |->
            <<<<"#", "4B0082">>, <<"#", "008080">>, <<"#", "20B2AA">>, <<"#", "3CB371">>, <<"#", "66CDAA">>, <<"#", "00FA9A">>>>,
         makeup |->
            [foundation |-> <<<<"#", "C9A877">>, <<"#", "BC8F8F">>, <<"#", "A0826D">>>>,
             lipstick |-> <<<<"#", "8B008B">>, <<"#", "FF1493">>, <<"#", "00CED1">>>>,
             eyeshadow |-> <<<<"#", "483D8B">>, <<"#", "4169E1">>, <<"#", "00CED1">>>>],
         jewelry |->
            [metals |-> <<<<"#", "C0C0C0">>, <<"#", "E8E8E8">>>>,
             stones |-> <<<<"#", "00CED1">>, <<"#", "50C878">>>>]])
    @@
    (<<"Medium", "Neutral">> :>
        [clothing |->
            <<<<"#", "50C878">>, <<"#", "DC143C">>, <<"#", "FF4500">>, <<"#", "228B22">>, <<"#", "FFD700">>, <<"#", "FF6347">>>>,
         makeup |->
            [foundation |-> <<<<"#", "C9A877">>, <<"#", "D4A574">>, <<"#", "BC8F8F">>>>,
             lipstick |-> <<<<"#", "DC143C">>, <<"#", "FF4500">>, <<"#", "C71585">>>>,
             eyeshadow |-> <<<<"#", "50C878">>, <<"#", "FFD700">>, <<"#", "FF4500">>>>],
         jewelry |->
            [metals |-> <<<<"#", "FFD700">>, <<"#", "B76E79">>>>,
             stones |-> <<<<"#", "50C878">>, <<"#", "FF4500">>>>]])

DarkPalettes ==
    (<<"Dark", "Warm">> :>
        [clothing |->
            <<<<"#", "FFD700">>, <<"#", "FFA500">>, <<"#", "FF8C00">>, <<"#", "FF6347">>, <<"#", "DC143C">>, <<"#", "8B4513">>>>,
         makeup |->
            [foundation |-> <<<<"#", "8B4513">>, <<"#", "A0522D">>, <<"#", "8B6914">>>>,
             lipstick |-> <<<<"#", "FF4500">>, <<"#", "FF6347">>, <<"#", "DC143C">>>>,
             eyeshadow |-> <<<<"#", "FFD700">>, <<"#", "FFA500">>, <<"#", "FF8C00">>>>],
         jewelry |->
            [metals |-> <<<<"#", "FFD700">>, <<"#", "B76E79">>>>,
             stones |-> <<<<"#", "FFD700">>, <<"#", "FF4500">>>>]])
    @@
    (<<"Dark", "Cool">> :>
        [clothing |->
            <<<<"#", "00CED1">>, <<"#", "87CEEB">>, <<"#", "00FA9A">>, <<"#", "20B2AA">>, <<"#", "FF1493">>, <<"#", "FF69B4">>>>,
         makeup |->
            [foundation |-> <<<<"#", "3D3D3D">>, <<"#", "545454">>, <<"#", "696969">>>>,
             lipstick |-> <<<<"#", "FF1493">>, <<"#", "FF69B4">>, <<"#", "00CED1">>>>,
             eyeshadow |-> <<<<"#", "00CED1">>, <<"#", "87CEEB">>, <<"#", "FF1493">>>>],
         jewelry |->
            [metals |-> <<<<"#", "C0C0C0">>, <<"#", "E8E8E8">>>>,
             stones |-> <<<<"#", "00CED1">>, <<"#", "FF1493">>>>]])
    @@
    (<<"Dark", "Neutral">> :>
        [clothing |->
            <<<<"#", "50C878">>, <<"#", "FFD700">>, <<"#", "FF4500">>, <<"#", "00CED1">>, <<"#", "FF1493">>, <<"#", "DC143C">>>>,
         makeup |->
            [foundation |-> <<<<"#", "704214">>, <<"#", "8B6914">>, <<"#", "A0522D">>>>,
             lipstick |-> <<<<"#", "FF4500">>, <<"#", "DC143C">>, <<"#", "FF1493">>>>,
             eyeshadow |-> <<<<"#", "50C878">>, <<"#", "FFD700">>, <<"#", "FF4500">>>>],
         jewelry |->
            [metals |-> <<<<"#", "FFD700">>, <<"#", "C0C0C0">>>>,
             stones |-> <<<<"#", "50C878">>, <<"#", "FFD700">>>>]])

color_names ==
    (<<"#", "FFB347">> :> "Peach")
    @@ (<<"#", "FF8C00">> :> "Dark Orange")
    @@ (<<"#", "CD853F">> :> "Peru")
    @@ (<<"#", "DEB887">> :> "Burlywood")
    @@ (<<"#", "F4A460">> :> "Sandy Brown")
    @@ (<<"#", "DAA520">> :> "Goldenrod")
    @@ (<<"#", "8B4513">> :> "Saddle Brown")
    @@ (<<"#", "D2691E">> :> "Chocolate")
    @@ (<<"#", "FF6347">> :> "Tomato")
    @@ (<<"#", "FF7F50">> :> "Coral")
    @@ (<<"#", "E75480">> :> "Raspberry")
    @@ (<<"#", "FFD700">> :> "Gold")
    @@ (<<"#", "FFA500">> :> "Orange")
    @@ (<<"#", "FF4500">> :> "Orange Red")
    @@ (<<"#", "4B0082">> :> "Indigo")
    @@ (<<"#", "00CED1">> :> "Dark Turquoise")
    @@ (<<"#", "E0FFFF">> :> "Light Cyan")
    @@ (<<"#", "B0E0E6">> :> "Powder Blue")
    @@ (<<"#", "ADD8E6">> :> "Light Blue")
    @@ (<<"#", "87CEEB">> :> "Sky Blue")
    @@ (<<"#", "FF1493">> :> "Deep Pink")
    @@ (<<"#", "FF69B4">> :> "Hot Pink")
    @@ (<<"#", "C71585">> :> "Medium Violet Red")
    @@ (<<"#", "8A2BE2">> :> "Blue Violet")
    @@ (<<"#", "C0C0C0">> :> "Silver")
    @@ (<<"#", "E8E8E8">> :> "Ghost White")
    @@ (<<"#", "50C878">> :> "Emerald")
    @@ (<<"#", "008080">> :> "Teal")
    @@ (<<"#", "20B2AA">> :> "Light Sea Green")
    @@ (<<"#", "3CB371">> :> "Medium Sea Green")
    @@ (<<"#", "66CDAA">> :> "Medium Aquamarine")
    @@ (<<"#", "00FA9A">> :> "Medium Spring Green")
    @@ (<<"#", "483D8B">> :> "Dark Slate Blue")
    @@ (<<"#", "4169E1">> :> "Royal Blue")
    @@ (<<"#", "228B22">> :> "Forest Green")
    @@ (<<"#", "DC143C">> :> "Crimson")
    @@ (<<"#", "FF0000">> :> "Red")
    @@ (<<"#", "FFFFFF">> :> "White")
    @@ (<<"#", "000000">> :> "Black")
    @@ (<<"#", "808080">> :> "Gray")
    @@ (<<"#", "A9A9A9">> :> "Dark Gray")
    @@ (<<"#", "B76E79">> :> "Rose Gold")
    @@ (<<"#", "8B6914">> :> "Dark Yellow")
    @@ (<<"#", "A0522D">> :> "Sienna")
    @@ (<<"#", "704214">> :> "Sepia")
    @@ (<<"#", "545454">> :> "Dark Gray")
    @@ (<<"#", "696969">> :> "Dim Gray")
    @@ (<<"#", "3D3D3D">> :> "Very Dark Gray")

metal_map ==
    (<<"#", "FFD700">> :> "Gold")
    @@ (<<"#", "C0C0C0">> :> "Silver")
    @@ (<<"#", "B76E79">> :> "Rose Gold")
    @@ (<<"#", "E8E8E8">> :> "Platinum")

initialize_color_palettes_no_dark == FairPalettes @@ MediumPalettes

initialize_color_palettes == FairPalettes @@ MediumPalettes @@ DarkPalettes

hex_to_names(hex_colors) ==
    [i \in DOMAIN hex_colors |-> Get(color_names, hex_colors[i], "Color")]

metal_names(metal_hex) ==
    [i \in DOMAIN metal_hex |-> Get(metal_map, metal_hex[i], "Metal")]

\* the recommendations built from one palette entry for the pair asked for
format_recommendations(palette, depth, undertone) ==
    [clothing |->
        [best_colors |-> SubSeq(palette.clothing, 1, Min2(6, Len(palette.clothing))),
         description |->
            <<"Recommended clothing colors for ", depth, " skin with ", undertone,
              " undertone">>],
     makeup |->
        [foundation |->
            [shades |-> hex_to_names(palette.makeup.foundation),
             hex_codes |-> palette.makeup.foundation],
         lipstick |->
            [shades |-> hex_to_names(palette.makeup.lipstick),
             hex_codes |-> palette.makeup.lipstick],
         eyeshadow |->
            [shades |-> hex_to_names(palette.makeup.eyeshadow),
             hex_codes |-> palette.makeup.eyeshadow]],
     jewelry |->
        [best_metals |-> metal_names(palette.jewelry.metals),
         metal_hex |-> palette.jewelry.metals,
         stone_colors |-> hex_to_names(palette.jewelry.stones),
         stone_hex |-> palette.jewelry.stones]]

KeyError == [raised |-> "KeyError"]

generate_recommendations_warm_default(self_palettes, depth, undertone) ==
    IF <<"Medium", "Warm">> \notin DOMAIN self_palettes THEN KeyError
    ELSE LET key == <<depth, undertone>>
             palette == Get(self_palettes, key, self_palettes[<<"Medium", "Warm">>])
         IN  format_recommendations(palette, depth, undertone)

\* the default of dict.get is evaluated before the lookup: it raises when the
\* table has no ('Medium', 'Neutral') entry, whatever the key
generate_recommendations(self_palettes, depth, undertone) ==
    IF <<"Medium", "Neutral">> \notin DOMAIN self_palettes THEN KeyError
    ELSE LET key == <<depth, undertone>>
             palette == Get(self_palettes, key, self_palettes[<<"Medium", "Neutral">>])
         IN  format_recommendations(palette, depth, undertone)

\* The lists of the recommendations that are the palette entry's own list
\* objects, each with its place in the palette table: hex_codes, metal_hex and
\* stone_hex are the entry's lists themselves, while palette['clothing'][:6]
\* and the lists of names are new lists.
shared_lists(self_palettes, depth, undertone) ==
    IF <<"Medium", "Neutral">> \notin DOMAIN self_palettes THEN {}
    ELSE LET key == IF <<depth, undertone>> \in DOMAIN self_palettes
                    THEN <<depth, undertone>> ELSE <<"Medium", "Neutral">>
         IN  { [result |-> <<"makeup", part, "hex_codes">>, palette |-> <<key, "makeup", part>>] :
                 part \in {"foundation", "lipstick", "eyeshadow"} }
             \cup { [result |-> <<"jewelry", "metal_hex", "">>, palette |-> <<key, "jewelry", "metals">>],
                    [result |-> <<"jewelry", "stone_hex", "">>, palette |-> <<key, "jewelry", "stones">>] }

----------------------------------------------------------------------------
(* config/extended_analyzer.py: palettes and the legacy mapping *)

\* f"{depth.value}-{undertone.value}"
palette_key(depth, undertone) == <<depth, "-", undertone>>

get_palette(self_palettes, depth, undertone) ==
    LET key == palette_key(depth, undertone) IN
    IF key \in DOMAIN self_palettes THEN self_palettes[key]
    ELSE LET default_key == palette_key("Medium", "Neutral") IN
         Get(self_palettes, default_key, <<>>)

legacy_depth_map ==
    ("Very Fair" :> "Fair") @@ ("Fair" :> "Fair") @@ ("Medium" :> "Medium")
    @@ ("Tan" :> "Medium") @@ ("Dark" :> "Dark") @@ ("Deep" :> "Dark")

legacy_undertone_map ==
    ("Warm" :> "Warm") @@ ("Cool" :> "Cool") @@ ("Neutral" :> "Neutral")
    @@ ("Olive" :> "Neutral") @@ ("Golden" :> "Warm")

legacy_undertone_map_no_golden ==
    ("Warm" :> "Warm") @@ ("Cool" :> "Cool") @@ ("Neutral" :> "Neutral")
    @@ ("Olive" :> "Neutral")

map_to_legacy_no_golden(depth, undertone) ==
    <<Get(legacy_depth_map, depth, "Medium"),
      Get(legacy_undertone_map_no_golden, undertone, "Neutral")>>

map_to_legacy(depth, undertone) ==
    <<Get(legacy_depth_map, depth, "Medium"),
      Get(legacy_undertone_map, undertone, "Neutral")>>

\* one classification pass over the same samples for old and new clients: the
\* legacy classification, the extended one, and the extended one mapped back
classify_both_ways(value_values, hue_values) ==
    LET depth == classify_depth_extended(value_values).depth
        undertone == classify_undertone_extended(hue_values).undertone
    IN  [legacy |-> <<classify_depth(value_values), classify_undertone(hue_values).undertone>>,
         extended |-> <<depth, undertone>>,
         mapped |-> map_to_legacy(depth, undertone)]

----------------------------------------------------------------------------
(* ml_service.py: the analysis pipeline *)

\* round(x, digits) with scale = 10^digits, as a whole number of 1/scale:
\* Python rounds an exact tie to the even neighbour
round(r, scale) ==
    LET n == r[1] * scale
        d == r[2]
        lo == n \div d
        rest == n - lo * d
    IN  IF 2 * rest < d THEN lo
        ELSE IF 2 * rest > d THEN lo + 1
        ELSE IF lo % 2 = 0 THEN lo ELSE lo + 1

\* generate_extended_response.  mean_hue, confidence, saturation and brightness
\* are fractions; the depth level and percentile come from
\* _classify_depth_extended(np.array([brightness * 255])), whose mean is the
\* one sample; a string put together by an f-string is the tuple of its parts.
generate_extended_response(self_palettes, depth, undertone, mean_hue, confidence, skin_pixels_detected, saturation, brightness) ==
    LET mean_value == <<brightness[1] * 255, brightness[2]>>
        depth_level == from_value(Trunc(mean_value))
        level_num == get_level(depth_level)
        percentile == get_percentile(depth_level)
        palette == get_palette(self_palettes, depth, undertone)
    IN  [version |-> "2.0",
         success |-> TRUE,
         message |-> "Skin tone analysis completed successfully",
         skinAnalysis |->
            [depth |-> depth,
             undertone |-> undertone,
             skinToneCategory |-> <<depth, "-", undertone>>,
             _NEW_ |->
                [extendedDepth |-> depth,
                 depthLevel |-> level_num,
                 depthPercentile |-> <<percentile[1], "-", percentile[2], "%">>,
                 extendedUndertone |-> undertone,
                 undertoneHueRange |-> get_hue_range(undertone),
                 undertoneIntensity |-> round(saturation, 100),
                 skinToneConfidence |-> round(confidence, 100),
                 skinCharacteristics |->
                    [hasOliveUndertones |-> undertone = "Olive",
                     isWarmDominant |-> is_warm_spectrum(undertone),
                     undertoneBalance |->
                        <<IF is_cool_spectrum(undertone) THEN "Cool" ELSE "Warm", " dominant">>]]],
         recommendations |->
            [clothing |-> Get(palette, "clothing", <<>>),
             makeup |-> Get(palette, "makeup", <<>>),
             jewelry |-> Get(palette, "jewelry", <<>>)],
         analysisDetails |->
            [processingTime |-> "< 1s",
             faceDetectionMethod |-> "MediaPipe Face Detection",
             skinPixelsDetected |-> skin_pixels_detected,
             hueDistribution |-> <<Trunc(mean_hue), round(mean_hue, 100), round(saturation, 100)>>,
             saturationLevel |-> round(saturation, 100),
             brightnessLevel |-> round(brightness, 100),
             confidenceScore |-> round(confidence, 100),
             recommendedRetryIfBelow |-> 70]]

error_response_status_failed(message) ==
    [status |-> "failed", message |-> message,
     skin_analysis |-> "None", recommendations |-> "None"]

error_response(message) ==
    [status |-> "error", message |-> message,
     skin_analysis |-> "None", recommendations |-> "None"]

\* image[skin_mask == 255][:, c] of the HSV image, as an array of samples
channel(skin_pixels, c) ==
    [a |-> skin_pixels.A[c], b |-> skin_pixels.B[c],
     p |-> skin_pixels.p, q |-> skin_pixels.q, m |-> skin_pixels.m]

\* x / y rounded to the nearest whole number (y > 0)
RoundDiv(x, y) == (2 * x + y) \div (2 * y)

\* cv2.COLOR_RGB2BGR on one pixel
bgr(rgb) == <<rgb[3], rgb[2], rgb[1]>>

\* cv2.COLOR_BGR2HSV on one 8-bit pixel: V is the largest channel, S is
\* 255 * (V - min) / V, H is the hue angle halved (0..179)
hsv(pixel) ==
    LET b == pixel[1]
        g == pixel[2]
        r == pixel[3]
        v == Max2(b, Max2(g, r))
        diff == v - Min2(b, Min2(g, r))
        s == IF v = 0 THEN 0 ELSE RoundDiv(255 * diff, v)
        sector == IF v = r THEN g - b
                  ELSE IF v = g THEN (b - r) + 2 * diff
                  ELSE (r - g) + 4 * diff
        h == IF diff = 0 THEN 0 ELSE RoundDiv(30 * sector, diff)
    IN  <<IF h < 0 THEN h + 180 ELSE h, s, v>>

SKIN_HSV_MIN == <<0, 5, 25>>
SKIN_HSV_MAX == <<50, 65, 95>>

\* An image is h rows of w pixels of colour bg (RGB), with the pixels of
\* image[r0:r1, c0:c1] of colour fg; a pixel is <<row, column>>.
shape(image) == (0..(image.h - 1)) \X (0..(image.w - 1))

in_rectangle(image, px) ==
    /\ image.r0 <= px[1] /\ px[1] < image.r1
    /\ image.c0 <= px[2] /\ px[2] < image.c1

image_hsv(image, px) ==
    hsv(bgr(IF in_rectangle(image, px) THEN image.fg ELSE image.bg))

\* a mask is the set of its pixels that are 255; Mask lists the set once, so
\* that later membership tests are lookups
Mask(pixels) == { px : px \in pixels }

\* cv2.inRange(image_hsv, SKIN_HSV_MIN, SKIN_HSV_MAX)
inRange(image) ==
    Mask({ px \in shape(image) :
            LET pixel == image_hsv(image, px) IN
            \A c \in 1..3 : SKIN_HSV_MIN[c] <= pixel[c] /\ pixel[c] <= SKIN_HSV_MAX[c] })

\* cv2.getStructuringElement(cv2.MORPH_ELLIPSE, (5, 5)), as offsets from the anchor
MORPH_ELLIPSE == { k \in (-2..2) \X (-2..2) : k[1] \in -1..1 \/ k[2] = 0 }

shift(px, k) == <<px[1] + k[1], px[2] + k[2]>>

inside(image, px) ==
    /\ 0 <= px[1] /\ px[1] < image.h
    /\ 0 <= px[2] /\ px[2] < image.w

\* pixels outside the image take no part in either operation
dilate(mask, image) ==
    Mask({ px \in UNION { { shift(on, k) : k \in MORPH_ELLIPSE } : on \in mask } :
            inside(image, px) })

erode(mask, image) ==
    Once(mask, LAMBDA on :
        Mask({ px \in on :
                \A k \in MORPH_ELLIPSE : inside(image, shift(px, k)) => shift(px, k) \in on }))

MORPH_CLOSE(mask, image) == erode(dilate(mask, image), image)

MORPH_OPEN(mask, image) == dilate(erode(mask, image), image)

\* int(x): the fraction is dropped, towards zero
int(r) == IF r[1] >= 0 THEN r[1] \div r[2] ELSE -((-r[1]) \div r[2])

\* whether the named library call raises on the image; "detectors" is an image
\* on which both detectors raise
raises(image, step) ==
    \/ image.fault = step
    \/ image.fault = "detectors" /\ step \in {"process", "detectMultiScale"}

\* _detect_faces_cascade: image.cascade are the rectangles (x, y, w, h) that
\* detectMultiScale reports; an error inside is caught and gives no faces
detect_faces_cascade(image) ==
    IF raises(image, "detectMultiScale") THEN [raised |-> FALSE, faces |-> <<>>]
    ELSE [raised |-> FALSE,
          faces |-> [i \in DOMAIN image.cascade |->
                        [x |-> image.cascade[i][1], y |-> image.cascade[i][2],
                         width |-> image.cascade[i][3], height |-> image.cascade[i][4],
                         confidence |-> 9]]]

\* a detector that also falls back when the primary detector finds no face
detect_faces_escalating_empty(self_face_detector, image) ==
    LET cascade == detect_faces_cascade(image) IN
    IF self_face_detector # "None" /\ ~raises(image, "process") /\ image.faces # <<>>
        THEN [raised |-> FALSE, calls |-> <<"_detect_faces">>,
              faces |-> [i \in DOMAIN image.faces |->
                            [x |-> Max2(0, int(<<image.faces[i].xmin[1] * image.w, image.faces[i].xmin[2]>>)),
                             y |-> Max2(0, int(<<image.faces[i].ymin[1] * image.h, image.faces[i].ymin[2]>>)),
                             width |-> int(<<image.faces[i].width[1] * image.w, image.faces[i].width[2]>>),
                             height |-> int(<<image.faces[i].height[1] * image.h, image.faces[i].height[2]>>),
                             confidence |-> image.faces[i].score]]]
    ELSE [raised |-> FALSE, calls |-> <<"_detect_faces", "_detect_faces_cascade">>,
          faces |-> cascade.faces]

\* a detector that reports the whole image when it finds no face
detect_faces_whole_image(self_face_detector, image) ==
    [raised |-> FALSE, calls |-> <<"_detect_faces">>,
     faces |-> <<[x |-> 0, y |-> 0, width |-> image.w, height |-> image.h, confidence |-> 0]>>]

\* _detect_faces: the face boxes, and the methods invoked on the way.
\* image.faces are the detections of self.face_detector.process, each a
\* relative bounding box (fractions of the image's width and height) with a
\* score in tenths.  The body of the try block either returns or raises; the
\* except clause answers a raise with the cascade.
detect_faces(self_face_detector, image) ==
    LET h == image.h
        w == image.w
        convert(detection) ==
            LET bbox == detection
                x == int(<<bbox.xmin[1] * w, bbox.xmin[2]>>)
                y == int(<<bbox.ymin[1] * h, bbox.ymin[2]>>)
                width == int(<<bbox.width[1] * w, bbox.width[2]>>)
                height == int(<<bbox.height[1] * h, bbox.height[2]>>)
                confidence == detection.score
            IN  [x |-> Max2(0, x), y |-> Max2(0, y), width |-> width, height |-> height,
                 confidence |-> confidence]
        try ==
            IF self_face_detector = "None"
                THEN LET cascade == detect_faces_cascade(image) IN
                     [raised |-> cascade.raised, faces |-> cascade.faces,
                      calls |-> <<"_detect_faces_cascade">>]
            ELSE IF raises(image, "process")
                THEN [raised |-> TRUE, faces |-> <<>>, calls |-> <<>>]
            ELSE [raised |-> FALSE,
                  faces |-> [i \in DOMAIN image.faces |-> convert(image.faces[i])],
                  calls |-> <<>>]
    IN  IF try.raised
            THEN LET cascade == detect_faces_cascade(image) IN
                 [raised |-> cascade.raised, faces |-> cascade.faces,
                  calls |-> <<"_detect_faces">> \o try.calls \o <<"_detect_faces_cascade">>]
        ELSE [raised |-> FALSE, faces |-> try.faces,
              calls |-> <<"_detect_faces">> \o try.calls]

\* the bounds of image[y:y2, x:x2], the face box with its padding of 0.2:
\* x and y are overwritten by their padded values before x2 and y2 are worked
\* out from them
padded_region(image, face_box) ==
    LET h == image.h
        w == image.w
        fw == face_box.width
        fh == face_box.height
        x == Max2(0, int(<<5 * face_box.x - fw, 5>>))
        y == Max2(0, int(<<5 * face_box.y - fh, 5>>))
        x2 == Min2(w, int(<<5 * x + 6 * fw, 5>>))
        y2 == Min2(h, int(<<5 * y + 6 * fh, 5>>))
    IN  [x |-> x, y |-> y, x2 |-> x2, y2 |-> y2]

\* skin_mask after the range filter, the closing and the opening
filtered_mask(image) == MORPH_OPEN(MORPH_CLOSE(inRange(image), image), image)

\* the skin mask (the pixels set to 255) and the bounds of the skin region, or
\* no mask when the extraction raised
extract_skin_region(image, face_box) ==
    IF image.fault = "_extract_skin_region" THEN [ok |-> FALSE]
    ELSE LET skin_mask == filtered_mask(image)
             region == padded_region(image, face_box)
         IN  [ok |-> TRUE,
              mask |-> Mask({ px \in skin_mask :
                                /\ region.y <= px[1] /\ px[1] < region.y2
                                /\ region.x <= px[2] /\ px[2] < region.x2 }),
              skin_region |-> region]

\* image_hsv[skin_mask == 255]: the samples under the mask, the pixels of the
\* rectangle first (the statistics taken of them do not depend on their order)
masked_pixels(image, skin_mask) ==
    LET within == Cardinality({ px \in skin_mask : in_rectangle(image, px) })
        outside == Cardinality(skin_mask) - within
        F == hsv(bgr(image.fg))
        B == hsv(bgr(image.bg))
    IN  IF within = 0 THEN [A |-> B, B |-> B, p |-> outside, q |-> 0, m |-> 1]
        ELSE [A |-> F, B |-> B, p |-> within, q |-> outside, m |-> 1]

\* skin_mask is None or cv2.countNonZero(skin_mask) < 100
insufficient_skin_region_at_100(skin) == ~skin.ok \/ Cardinality(skin.mask) <= 100

insufficient_skin_region(skin) == ~skin.ok \/ Cardinality(skin.mask) < 100

\* Steps 3 to 9 of analyze_skin_tone, on the samples under the mask
classify_skin_pixels(self_palettes, skin_pixels) ==
    LET hue_values == channel(skin_pixels, 1)
        saturation_values == channel(skin_pixels, 2)
        value_values == channel(skin_pixels, 3)
        depth == classify_depth(value_values)
        classified == classify_undertone(hue_values)
        undertone == classified.undertone
        undertone_hue == classified.mean_hue
        confidence == calculate_confidence(value_values, hue_values)
        recommendations == generate_recommendations(self_palettes, depth, undertone)
        stages == <<"_detect_faces", "_extract_skin_region", "_classify_depth",
                    "_classify_undertone", "_calculate_confidence",
                    "_generate_recommendations">>
    IN
    IF recommendations = KeyError
        THEN [response |-> error_response(<<"Analysis failed: ", "KeyError">>),
              calls |-> Append(stages, "_error_response")]
    ELSE [response |->
            [skin_analysis |->
                [depth |-> depth, undertone |-> undertone,
                 confidence |-> round(<<confidence, One>>, 100)],
             recommendations |-> recommendations,
             analysis_details |->
                [hue |-> round(mean(hue_values), 10),
                 saturation |-> round(<<sum(saturation_values), 255 * len(saturation_values)>>, 100),
                 brightness |-> round(<<sum(value_values), 255 * len(value_values)>>, 100),
                 skin_pixels_detected |-> len(hue_values),
                 undertone_hue |-> round(undertone_hue, 10)]],
          calls |-> stages]

\* the response, and the methods of the analyzer invoked on the way, in order
analyze_skin_tone(self_palettes, self_face_detector, image) ==
    IF image.fault = "cvtColor"
        THEN [response |-> error_response(<<"Analysis failed: ", "cv2.error">>),
              calls |-> <<"_error_response">>]
    ELSE LET detection == detect_faces(self_face_detector, image)
             faces == detection.faces
         IN
    IF detection.raised
        THEN [response |-> error_response(<<"Analysis failed: ", "cv2.error">>),
              calls |-> Append(detection.calls, "_error_response")]
    ELSE IF faces = <<>>
        THEN [response |-> error_response(<<"No face detected in image">>),
              calls |-> Append(detection.calls, "_error_response")]
    ELSE Once(extract_skin_region(image, faces[1]), LAMBDA skin :
    IF insufficient_skin_region(skin)
        THEN [response |-> error_response(<<"Could not extract sufficient skin region">>),
              calls |-> detection.calls \o <<"_extract_skin_region", "_error_response">>]
    ELSE IF image.fault = "numeric"
        THEN [response |-> error_response(<<"Analysis failed: ", "FloatingPointError">>),
              calls |-> detection.calls \o <<"_extract_skin_region", "_error_response">>]
    ELSE Once(masked_pixels(image, skin.mask), LAMBDA skin_pixels :
            LET classified == classify_skin_pixels(self_palettes, skin_pixels) IN
            [response |-> classified.response,
             calls |-> detection.calls \o Tail(classified.calls)]))

----------------------------------------------------------------------------
(* main.py: the /analyze-skin handler *)

allowed_types == {"image/jpeg", "image/png", "image/jpg"}

\* 5MB in bytes
max_file_size == 5 * 1024 * 1024

HTTPException(status_code, detail) == [status_code |-> status_code, detail |-> detail]

get_hex_color(depth, undertone) ==
    LET color_map ==
            (<<"Fair", "-", "Warm">> :> <<"#", "F5D7C3">>)
            @@ (<<"Fair", "-", "Cool">> :> <<"#", "F5E6D3">>)
            @@ (<<"Fair", "-", "Neutral">> :> <<"#", "F5DCC8">>)
            @@ (<<"Medium", "-", "Warm">> :> <<"#", "D4A574">>)
            @@ (<<"Medium", "-", "Cool">> :> <<"#", "C9A57B">>)
            @@ (<<"Medium", "-", "Neutral">> :> <<"#", "CD9A68">>)
            @@ (<<"Dark", "-", "Warm">> :> <<"#", "8D5524">>)
            @@ (<<"Dark", "-", "Cool">> :> <<"#", "8B6342">>)
            @@ (<<"Dark", "-", "Neutral">> :> <<"#", "704214">>)
    IN  Get(color_map, <<depth, "-", undertone>>, <<"#", "D4A574">>)

\* What the handler answers for an uploaded file, with the pipeline methods it
\* had invoked.  file.fault names the step of the handler that raises: reading
\* the upload, opening it as an image, or turning it into an array.  A
\* structured error of the pipeline has skin_analysis None, and subscripting it
\* raises TypeError.  The field rgbColor, the hex colour again as three
\* numbers, is left out of the body.
analyze_skin(self_palettes, self_face_detector, file) ==
    LET processing(e) ==
            [response |-> HTTPException(422, <<"Error processing image: ", e>>), calls |-> <<>>]
    IN
    IF file.content_type \notin allowed_types
        THEN [response |-> HTTPException(400, <<"Invalid file type: ", file.content_type,
                                                ". Allowed types: JPEG, PNG">>),
              calls |-> <<>>]
    ELSE IF file.fault = "read" THEN processing("OSError")
    ELSE IF file.size > max_file_size
        THEN [response |-> HTTPException(413, <<"File size ", file.size,
                                                " bytes exceeds 5MB limit">>),
              calls |-> <<>>]
    ELSE IF file.fault = "open" THEN processing("UnidentifiedImageError")
    ELSE IF file.fault = "array" THEN processing("MemoryError")
    ELSE Once(analyze_skin_tone(self_palettes, self_face_detector, file.image), LAMBDA analysis :
         LET results == analysis.response IN
    IF "status" \in DOMAIN results
        THEN [response |-> HTTPException(422, <<"Error processing image: ", "TypeError">>),
              calls |-> analysis.calls]
    ELSE [response |->
            [status_code |-> 200,
             success |-> TRUE,
             message |-> "Skin tone analysis completed successfully",
             skinAnalysis |->
                [depth |-> results.skin_analysis.depth,
                 undertone |-> results.skin_analysis.undertone,
                 skinToneCategory |->
                    <<results.skin_analysis.depth, "-", results.skin_analysis.undertone>>,
                 hexColor |-> get_hex_color(results.skin_analysis.depth,
                                            results.skin_analysis.undertone),
                 hsvColor |->
                    [h |-> results.analysis_details.hue,
                     s |-> results.analysis_details.saturation,
                     v |-> results.analysis_details.brightness]],
             recommendations |-> results.recommendations,
             analysisDetails |->
                [processingTime |-> "< 1s",
                 faceDetectionMethod |-> "MediaPipe Face Detection",
                 confidence |-> results.skin_analysis.confidence]],
          calls |-> analysis.calls])

----------------------------------------------------------------------------
(* The calls *)

ValueArrays == { arr \in Ramps(0..255, {1}) : arr.q = 0 \/ arr.b <= 255 }

HueArrays == Ramps(0..(180 * HuePeriods - 1), {1})

\* confidence: sample values far apart and close, every block shape, and
\* hue arrays of every length the repetitions give
ConfidenceValues == Arrays({0, 100, 150, 255}, {1})

ConfidenceHues == { arr \in Arrays({12}, Reps) : arr.q = 0 }

\* depth and undertone names a caller can pass: the legacy ones, the extended
\* ones and one that is neither
DepthNames == SkinDepth \cup {"None"}

UndertoneNames == Undertone \cup {"None"}

AllKeys == { palette_key(d, u) : d \in SkinDepth, u \in Undertone }

\* palettes_config['palettes'] of the extended analyzer is read from a JSON file:
\* the full table, a table without its default entry, a table of the default
\* entry alone, an empty table.  An entry is known by its key.
PaletteConfigs ==
    LET table(keys) == [k \in keys |-> [clothing |-> <<k>>]] IN
    { table(AllKeys),
      table(AllKeys \ {palette_key("Medium", "Neutral"), palette_key("Tan", "Olive")}),
      table({palette_key("Medium", "Neutral")}),
      table({}) }

\* RGB colours: the two skin colours of the test fixtures and their white
\* background, and two darker skin colours
synthetic_skin_color == <<210, 180, 140>>
synthetic_dark_skin_color == <<100, 75, 60>>
white == <<255, 255, 255>>
shaded_skin_color == <<90, 80, 70>>
deep_shaded_skin_color == <<60, 55, 50>>

Colours ==
    { synthetic_skin_color, synthetic_dark_skin_color, white,
      shaded_skin_color, deep_shaded_skin_color }

Backgrounds == { white, deep_shaded_skin_color }

\* a face box in pixels, its confidence in tenths
FaceBox(x, y, width, height) ==
    [x |-> x, y |-> y, width |-> width, height |-> height, confidence |-> 9]

\* what a detector can report for an image with a rectangle: nothing, the box
\* of the rectangle, or the box of the whole image and then that of the rectangle
FaceLists(h, w, r0, r1, c0, c1) ==
    LET rectangle == FaceBox(c0, r0, c1 - c0, r1 - r0)
        whole == FaceBox(0, 0, w, h)
    IN  { <<>>, <<rectangle>>, <<whole, rectangle>> }

\* what MediaPipe reports for a face at a pixel box: the box as fractions of
\* the image's width and height, and a score
Detection(box, h, w) ==
    [xmin |-> <<box.x, w>>, ymin |-> <<box.y, h>>,
     width |-> <<box.width, w>>, height |-> <<box.height, h>>, score |-> box.confidence]

\* what the cascade reports for faces at pixel boxes: minSize=(30, 30) leaves
\* out every face smaller than that
Rectangles(boxes) ==
    LET large == SelectSeq(boxes, LAMBDA box : box.width >= 30 /\ box.height >= 30)
    IN  [i \in DOMAIN large |-> <<large[i].x, large[i].y, large[i].width, large[i].height>>]

\* an image with faces at the given pixel boxes, which both detectors find
Image(fault, h, w, r0, r1, c0, c1, fg, bg, faces) ==
    [fault |-> fault, h |-> h, w |-> w, r0 |-> r0, r1 |-> r1, c0 |-> c0, c1 |-> c1,
     fg |-> fg, bg |-> bg,
     faces |-> [i \in DOMAIN faces |-> Detection(faces[i], h, w)],
     cascade |-> Rectangles(faces)]

\* one-row images with a run of 3, 99 or 100 pixels of the second colour
StripImages ==
    UNION { { Image("none", 1, 115, 0, 1, 10, 10 + run, fg, bg, faces) :
                fg \in Colours, bg \in Backgrounds,
                faces \in FaceLists(1, 115, 0, 1, 10, 10 + run) } :
            run \in {3, 99, 100} }

\* the fixtures' layout at a smaller size (a rectangle inside a white
\* background), and a rectangle of more than 500 pixels
BlockImages ==
    { Image("none", 12, 30, 3, 9, 5, 25, fg, white, faces) :
        fg \in Colours, faces \in FaceLists(12, 30, 3, 9, 5, 25) }
    \cup { Image("none", 8, 70, 0, 8, 3, 67, fg, bg, <<FaceBox(3, 0, 64, 8)>>) :
        fg \in Colours \ {white}, bg \in Backgrounds }

\* where a stage can raise: the first colour conversion (a malformed buffer),
\* the skin extraction, the arithmetic after it, the primary detector, the
\* cascade, both detectors
Faults ==
    {"cvtColor", "_extract_skin_region", "numeric", "process", "detectMultiScale", "detectors"}

FaultyImages ==
    { Image(fault, 1, 115, 0, 1, 10, 110, shaded_skin_color, white, faces) :
        fault \in Faults, faces \in FaceLists(1, 115, 0, 1, 10, 110) }

\* a face of 30 by 30 pixels in an image of 36 by 36: each detector finds it or
\* does not, or raises
PortraitImages ==
    { [Image(fault, 36, 36, 3, 33, 3, 33, fg, white, faces) EXCEPT !.cascade = found] :
        fault \in {"none", "process", "detectMultiScale", "detectors"},
        fg \in {shaded_skin_color, synthetic_dark_skin_color},
        faces \in {<<>>, <<FaceBox(3, 3, 30, 30)>>},
        found \in {<<>>, <<<<3, 3, 30, 30>>>>} }

Images == StripImages \cup BlockImages \cup FaultyImages \cup PortraitImages

\* the images of a session of requests:
\* a strip of shaded skin on white: 100 pixels with a face box, 100 pixels
\* without one, 99 pixels with a face box, and a buffer that cannot be read
SessionImages ==
    { Image("none", 1, 115, 0, 1, 10, 110, shaded_skin_color, white, <<FaceBox(10, 0, 100, 1)>>),
      Image("none", 1, 115, 0, 1, 10, 110, shaded_skin_color, white, <<>>),
      Image("none", 1, 115, 0, 1, 10, 109, shaded_skin_color, white, <<FaceBox(10, 0, 99, 1)>>),
      Image("cvtColor", 1, 115, 0, 1, 10, 110, shaded_skin_color, white, <<FaceBox(10, 0, 100, 1)>>) }

\* _extract_skin_region called by itself, as the tests call it: a rectangle of
\* skin on white and on a background that passes the range filter too, and
\* face boxes inside the image, over its edges and beyond them
ExtractImages ==
    { Image("none", 12, 30, 3, 9, 5, 25, shaded_skin_color, bg, <<>>) : bg \in Backgrounds }

FaceBoxes ==
    { FaceBox(x, y, width, height) :
        x \in {-4, 0, 5, 10, 28, 30, 34}, y \in {-2, 0, 3, 12},
        width \in {0, 5, 10, 20}, height \in {0, 5, 6} }

Extractions ==
    { [image |-> i, face_box |-> b] : i \in ExtractImages, b \in FaceBoxes }
    \cup { [image |-> Image("_extract_skin_region", 12, 30, 3, 9, 5, 25,
                             shaded_skin_color, white, <<>>),
            face_box |-> FaceBox(5, 3, 20, 6)] }

\* _detect_faces called by itself on an image of 40 rows and 50 columns.  The
\* primary detector reports no face or one, whose relative box may start left
\* of or above the image (-0.1), at its origin, inside it (1/3) or near its far
\* edge (0.9), and may be a quarter, a half or the whole of the image in size;
\* its score is at least min_detection_confidence, 0.5.  The cascade reports
\* no rectangle, or one inside the image.
RelativeBoxes ==
    { [xmin |-> xmin, ymin |-> ymin, width |-> width, height |-> height, score |-> score] :
        xmin \in {<<-1, 10>>, <<0, 1>>, <<1, 3>>, <<9, 10>>},
        ymin \in {<<-1, 10>>, <<0, 1>>, <<1, 3>>, <<9, 10>>},
        width \in {<<1, 4>>, <<1, 2>>, <<1, 1>>},
        height \in {<<1, 4>>, <<1, 2>>, <<1, 1>>},
        score \in {5, 10} }

DetectionImages ==
    { [Image(fault, 40, 50, 5, 35, 5, 35, shaded_skin_color, white, <<>>)
            EXCEPT !.faces = faces, !.cascade = found] :
        fault \in {"none", "process", "detectMultiScale"},
        faces \in {<<>>} \cup { <<bbox>> : bbox \in RelativeBoxes },
        found \in {<<>>, <<<<5, 5, 30, 30>>>>} }

\* statistics for the two classifications: every whole mean Value with a few
\* hues, and every OpenCV hue with a few Values; a single sample is its own mean
Single(x) == [a |-> x, b |-> x, p |-> 1, q |-> 0, m |-> 1]

Statistics ==
    { [value_values |-> Single(v), hue_values |-> Single(h)] :
        v \in 0..255, h \in {10, 16, 50, 100} }
    \cup { [value_values |-> Single(v), hue_values |-> Single(h)] :
        v \in {50, 110, 130, 170, 200}, h \in 0..179 }

\* the arguments of generate_extended_response: every depth and undertone,
\* brightness in hundredths from 0 to 1 on either side of each depth
\* threshold (60, 100, 140, 180, 210 out of 255), two palette tables
Brightnesses == {0, 23, 24, 39, 40, 54, 55, 56, 70, 71, 82, 83, 100}

ExtendedArguments ==
    { [palettes_config |-> c, depth |-> d, undertone |-> u, mean_hue |-> <<h, 2>>,
       confidence |-> <<85, 100>>, skin_pixels_detected |-> 500,
       saturation |-> <<1, 3>>, brightness |-> <<b, 100>>] :
        c \in { config \in PaletteConfigs : DOMAIN config \in {AllKeys, {}} },
        d \in SkinDepth, u \in Undertone, h \in {45, 401}, b \in Brightnesses }

\* uploads: content types accepted and not, sizes around the limit, each step
\* of the handler that can raise, images the pipeline accepts and rejects
ContentTypes == allowed_types \cup {"image/gif", "text/plain"}

FileSizes == {max_file_size - 1, max_file_size, max_file_size + 1}

HandlerFaults == {"none", "read", "open", "array"}

Files ==
    { [content_type |-> t, size |-> n, fault |-> f, image |-> i] :
        t \in ContentTypes, n \in FileSizes, f \in HandlerFaults, i \in SessionImages }

Calls ==
    { <<"classify_depth", [value_values |-> v]>> : v \in ValueArrays }
    \cup { <<"classify_depth_extended", [value_values |-> v]>> : v \in ValueArrays }
    \cup { <<"classify_undertone", [hue_values |-> h]>> : h \in HueArrays }
    \cup { <<"classify_undertone_extended", [hue_values |-> h]>> : h \in HueArrays }
    \cup { <<"calculate_confidence", [value_values |-> v, hue_values |-> h]>> :
            v \in ConfidenceValues, h \in ConfidenceHues }
    \cup { <<"generate_recommendations", [depth |-> d, undertone |-> u]>> :
            d \in DepthNames, u \in UndertoneNames }
    \cup { <<"get_palette", [palettes_config |-> c, depth |-> d, undertone |-> u]>> :
            c \in PaletteConfigs, d \in SkinDepth, u \in Undertone }
    \cup { <<"map_to_legacy", [depth |-> d, undertone |-> u]>> :
            d \in DepthNames, u \in UndertoneNames }
    \cup { <<"analyze_skin_tone", [image |-> i]>> : i \in Images }
    \cup { <<"analyze_skin", [file |-> f]>> : f \in Files }
    \cup { <<"extract_skin_region", e>> : e \in Extractions }
    \cup { <<"detect_faces", [image |-> i]>> : i \in DetectionImages }
    \cup { <<"classify_both_ways", st>> : st \in Statistics }
    \cup { <<"generate_extended_response", a>> : a \in ExtendedArguments }

----------------------------------------------------------------------------
(* The state machine: one call of one operation on a constructed analyzer *)

\* SkinToneAnalyzer.__init__ keeps a MediaPipe detector, or None when MediaPipe
\* is missing or fails to load
FaceDetectors == {"FaceDetection", "None"}

\* the detector is read by the analysis pipeline and by face detection alone
Init ==
    /\ palettes = initialize_color_palettes
    /\ ext_palettes = <<>>
    /\ pc = "call"
    /\ \E call \in Calls : fn = call[1] /\ arg = call[2]
    /\ ret = <<>>
    /\ face_detector \in IF fn \in {"analyze_skin_tone", "analyze_skin", "detect_faces"}
                          THEN FaceDetectors ELSE {"FaceDetection"}
    /\ calls = <<>>
    /\ aliases = {}
    /\ served = <<>>

Return(name, value) ==
    /\ pc = "call"
    /\ fn = name
    /\ ret' = value
    /\ pc' = "done"
    /\ UNCHANGED <<fn, arg, face_detector, served>>

ClassifyDepth ==
    /\ Return("classify_depth", classify_depth(arg.value_values))
    /\ UNCHANGED <<palettes, ext_palettes, calls, aliases>>

ClassifyDepthExtended ==
    /\ Return("classify_depth_extended", classify_depth_extended(arg.value_values))
    /\ UNCHANGED <<palettes, ext_palettes, calls, aliases>>

ClassifyUndertone ==
    /\ Return("classify_undertone", classify_undertone(arg.hue_values))
    /\ UNCHANGED <<palettes, ext_palettes, calls, aliases>>

ClassifyUndertoneExtended ==
    /\ Return("classify_undertone_extended", classify_undertone_extended(arg.hue_values))
    /\ UNCHANGED <<palettes, ext_palettes, calls, aliases>>

CalculateConfidence ==
    /\ Return("calculate_confidence", calculate_confidence(arg.value_values, arg.hue_values))
    /\ UNCHANGED <<palettes, ext_palettes, calls, aliases>>

GenerateRecommendations ==
    /\ Return("generate_recommendations",
              generate_recommendations(palettes, arg.depth, arg.undertone))
    /\ aliases' = shared_lists(palettes, arg.depth, arg.undertone)
    /\ UNCHANGED <<palettes, ext_palettes, calls>>

\* ExtendedSkinToneAnalyzer(palettes_config)._get_palette(depth, undertone)
GetPalette ==
    /\ fn = "get_palette"
    /\ ext_palettes' = arg.palettes_config
    /\ Return("get_palette", get_palette(ext_palettes', arg.depth, arg.undertone))
    /\ UNCHANGED <<palettes, calls, aliases>>

MapToLegacy ==
    /\ Return("map_to_legacy", map_to_legacy(arg.depth, arg.undertone))
    /\ UNCHANGED <<palettes, ext_palettes, calls, aliases>>

\* ExtendedSkinToneAnalyzer(palettes_config).generate_extended_response(...)
GenerateExtendedResponse ==
    /\ fn = "generate_extended_response"
    /\ ext_palettes' = arg.palettes_config
    /\ Return("generate_extended_response",
              generate_extended_response(ext_palettes', arg.depth, arg.undertone, arg.mean_hue,
                                         arg.confidence, arg.skin_pixels_detected,
                                         arg.saturation, arg.brightness))
    /\ UNCHANGED <<palettes, calls, aliases>>

ClassifyBothWays ==
    /\ Return("classify_both_ways", classify_both_ways(arg.value_values, arg.hue_values))
    /\ UNCHANGED <<palettes, ext_palettes, calls, aliases>>

DetectFaces ==
    /\ pc = "call"
    /\ fn = "detect_faces"
    /\ \E detection \in {detect_faces(face_detector, arg.image)} :
           /\ Return("detect_faces", detection.faces)
           /\ calls' = detection.calls
    /\ UNCHANGED <<palettes, ext_palettes, aliases>>

ExtractSkinRegion ==
    /\ pc = "call"
    /\ fn = "extract_skin_region"
    /\ \E skin \in {extract_skin_region(arg.image, arg.face_box)} :
           Return("extract_skin_region", skin)
    /\ UNCHANGED <<palettes, ext_palettes, calls, aliases>>

\* an analyzer that takes the first clothing colour out of the entry it used
AnalyzeSkinTone_taking_colour ==
    /\ pc = "call"
    /\ fn = "analyze_skin_tone"
    /\ \E analysis \in {analyze_skin_tone(palettes, face_detector, arg.image)} :
           LET key == <<analysis.response.skin_analysis.depth, analysis.response.skin_analysis.undertone>>
           IN
           /\ Return("analyze_skin_tone", analysis.response)
           /\ calls' = analysis.calls
           /\ aliases' = {}
           /\ palettes' = IF "status" \in DOMAIN analysis.response THEN palettes
                          ELSE [palettes EXCEPT ![key].clothing = Tail(@)]
           /\ UNCHANGED ext_palettes

AnalyzeSkinTone ==
    /\ pc = "call"
    /\ fn = "analyze_skin_tone"
    /\ \E analysis \in {analyze_skin_tone(palettes, face_detector, arg.image)} :
           /\ Return("analyze_skin_tone", analysis.response)
           /\ calls' = analysis.calls
           /\ aliases' = IF "status" \in DOMAIN analysis.response THEN {}
                         ELSE shared_lists(palettes, analysis.response.skin_analysis.depth,
                                           analysis.response.skin_analysis.undertone)
           /\ UNCHANGED <<palettes, ext_palettes>>

\* POST /analyze-skin
AnalyzeSkin ==
    /\ pc = "call"
    /\ fn = "analyze_skin"
    /\ \E answer \in {analyze_skin(palettes, face_detector, arg.file)} :
           /\ Return("analyze_skin", answer.response)
           /\ calls' = answer.calls
           /\ aliases' = IF answer.response.status_code # 200 THEN {}
                         ELSE shared_lists(palettes, answer.response.skinAnalysis.depth,
                                           answer.response.skinAnalysis.undertone)
           /\ UNCHANGED <<palettes, ext_palettes>>

Next ==
    \/ ClassifyDepth
    \/ ClassifyDepthExtended
    \/ ClassifyUndertone
    \/ ClassifyUndertoneExtended
    \/ CalculateConfidence
    \/ GenerateRecommendations
    \/ GetPalette
    \/ MapToLegacy
    \/ AnalyzeSkinTone
    \/ AnalyzeSkin
    \/ ExtractSkinRegion
    \/ DetectFaces
    \/ ClassifyBothWays
    \/ GenerateExtendedResponse

Spec == Init /\ [][Next]_vars

----------------------------------------------------------------------------
(* A session: one analyzer serves analyze_skin_tone requests one after another,
   and the caller keeps what each request returned *)

InitSession ==
    /\ palettes = initialize_color_palettes
    /\ ext_palettes = <<>>
    /\ pc = "call"
    /\ pc = "call"
    /\ fn = "analyze_skin_tone"
    /\ \E image \in SessionImages : arg = [image |-> image]
    /\ ret = <<>>
    /\ face_detector \in FaceDetectors
    /\ calls = <<>>
    /\ aliases = {}
    /\ served = <<>>

\* the next request arrives once the one before has returned
NextRequest(image) ==
    /\ pc \in {"done", "mutated"}
    /\ fn = "analyze_skin_tone"
    /\ Len(served) + 1 < MaxRequests
    /\ served' = Append(served, arg.image)
    /\ arg' = [image |-> image]
    /\ pc' = "call"
    /\ UNCHANGED <<palettes, ext_palettes, fn, ret, face_detector, calls, aliases>>

NextSession ==
    \/ AnalyzeSkinTone
    \/ \E image \in SessionImages : NextRequest(image)

SpecSession == InitSession /\ [][NextSession]_vars

----------------------------------------------------------------------------
(* The caller writes into a result it was returned *)

\* result['recommendations'][...][0] = '#000000'
Overwrite(list) == [list EXCEPT ![1] = <<"#", "000000">>]

\* the palette table after a write into the list at a place of the result: the
\* write lands in the table when that list is one of the table's own
WriteThrough(place) ==
    IF \E shared \in aliases : shared.result = place
        THEN LET at == (CHOOSE shared \in aliases : shared.result = place).palette
             IN  [palettes EXCEPT ![at[1]][at[2]][at[3]] = Overwrite(@)]
    ELSE palettes

Mutate(place, result) ==
    /\ pc = "done"
    /\ fn = "analyze_skin_tone"
    /\ "status" \notin DOMAIN ret
    /\ ret' = result
    /\ palettes' = WriteThrough(place)
    /\ pc' = "mutated"
    /\ UNCHANGED <<ext_palettes, fn, arg, face_detector, calls, aliases, served>>

MutateClothing ==
    Mutate(<<"clothing", "best_colors", "">>,
           [ret EXCEPT !.recommendations.clothing.best_colors = Overwrite(@)])

MutateMakeup(part) ==
    Mutate(<<"makeup", part, "hex_codes">>,
           [ret EXCEPT !.recommendations.makeup[part].hex_codes = Overwrite(@)])

MutateJewelry(list) ==
    Mutate(<<"jewelry", list, "">>,
           [ret EXCEPT !.recommendations.jewelry[list] = Overwrite(@)])

NextCaller ==
    \/ AnalyzeSkinTone
    \/ \E image \in SessionImages : NextRequest(image)
    \/ MutateClothing
    \/ \E part \in {"foundation", "lipstick", "eyeshadow"} : MutateMakeup(part)
    \/ \E list \in {"metal_hex", "stone_hex"} : MutateJewelry(list)

SpecCaller == InitSession /\ [][NextCaller]_vars

----------------------------------------------------------------------------
(* Claims *)

Returned(name) == pc = "done" /\ fn = name

Succeeded == "status" \notin DOMAIN ret

LegacyDepths == {"Fair", "Medium", "Dark"}

LegacyUndertones == {"Warm", "Cool", "Neutral"}

\* the mean hue of a hue array in degrees, before any normalisation
Degrees(hue_values) == mean(Scale(hue_values, 2))

C2_ExtendedDepthStep ==
    Returned("classify_depth_extended") =>
        LET v == mean(arg.value_values) IN
        ret.depth =
            IF GT(v, 210) THEN "Very Fair"
            ELSE IF GT(v, 180) THEN "Fair"
            ELSE IF GT(v, 140) THEN "Medium"
            ELSE IF GT(v, 100) THEN "Tan"
            ELSE IF GT(v, 60) THEN "Dark"
            ELSE "Deep"

\* C3: for a mean hue h in [0, 360), _classify_undertone returns Warm on [0, 35],
\* Neutral on (35, 60], Cool from 340 on, and Neutral everywhere else.
C3_LegacyUndertoneTable ==
    (Returned("classify_undertone") /\ LT(Degrees(arg.hue_values), 360)) =>
        LET h == Degrees(arg.hue_values) IN
        ret.undertone =
            IF GE(h, 0) /\ LE(h, 35) THEN "Warm"
            ELSE IF GT(h, 35) /\ LE(h, 60) THEN "Neutral"
            ELSE IF GE(h, 340) THEN "Cool"
            ELSE "Neutral"

\* C4: for a mean hue h in [0, 360), the extended classifier returns Warm on
\* [0, 30], Neutral on (30, 60], Olive on (60, 90], Golden on (90, 120], Cool on
\* [330, 360) and Neutral everywhere else; the result is one of the five undertones.
C4_ExtendedUndertoneTable ==
    (Returned("classify_undertone_extended") /\ LT(Degrees(arg.hue_values), 360)) =>
        LET h == Degrees(arg.hue_values) IN
        /\ ret.undertone \in Undertone
        /\ ret.undertone =
            IF GE(h, 0) /\ LE(h, 30) THEN "Warm"
            ELSE IF GT(h, 30) /\ LE(h, 60) THEN "Neutral"
            ELSE IF GT(h, 60) /\ LE(h, 90) THEN "Olive"
            ELSE IF GT(h, 90) /\ LE(h, 120) THEN "Golden"
            ELSE IF GE(h, 330) /\ LT(h, 360) THEN "Cool"
            ELSE "Neutral"

\* a mean hue in [330, 340) has been classified Cool
C4_Witness ==
    /\ Returned("classify_undertone_extended")
    /\ GE(Degrees(arg.hue_values), 330) /\ LT(Degrees(arg.hue_values), 340)
    /\ ret.undertone = "Cool"

\* the hue array whose mean is the mean of hue_values less its whole turns
FirstTurn(hue_values) ==
    LET k == Trunc(Degrees(hue_values)) \div 360 IN
    [hue_values EXCEPT !.a = @ - 180 * k, !.b = @ - 180 * k]

\* C5: a mean hue of h + 360k degrees gets, from the legacy and from the
\* extended classifier, the undertone that h gets.
C5_UndertonePeriodic ==
    /\ Returned("classify_undertone") =>
        ret.undertone = classify_undertone(FirstTurn(arg.hue_values)).undertone
    /\ Returned("classify_undertone_extended") =>
        ret.undertone = classify_undertone_extended(FirstTurn(arg.hue_values)).undertone

\* the bonus for more than 500 pixels
Bonus(hue_values) == IF len(hue_values) > 500 THEN One \div 10 ELSE 0

\* C6: _calculate_confidence returns min(1, max(0, 1 - std/255) + bonus), in
\* [0, 1], the bonus being 0.1 for more than 500 pixels and 0 for 500 or fewer;
\* the confidence analyze_skin_tone reports is in [0, 1] too.
C6_ConfidenceFormula ==
    /\ Returned("calculate_confidence") =>
        /\ ret \in 0..One
        /\ ret = Min2(One, Max2(0, One - std10(arg.value_values)) + Bonus(arg.hue_values))
    /\ (Returned("analyze_skin_tone") /\ Succeeded) =>
        ret.skin_analysis.confidence \in 0..100

\* exactly 500 pixels of varying Value got no bonus
C6_Witness ==
    /\ Returned("calculate_confidence")
    /\ len(arg.hue_values) = 500
    /\ std10(arg.value_values) > 0
    /\ ret = One - std10(arg.value_values)

\* C7: with the pixel count fixed, a smaller standard deviation never gives a
\* lower confidence; with the standard deviation fixed, a larger pixel count
\* never gives a lower confidence.
C7_ConfidenceMonotonic ==
    Returned("calculate_confidence") =>
        /\ \A v \in ConfidenceValues :
            std10(v) <= std10(arg.value_values) =>
                calculate_confidence(v, arg.hue_values) >= ret
        /\ \A h \in ConfidenceHues :
            len(h) >= len(arg.hue_values) =>
                calculate_confidence(arg.value_values, h) >= ret

\* a standard deviation of 50 got strictly less than a standard deviation of 0
\* gets at the same pixel count
C7_Witness ==
    /\ Returned("calculate_confidence")
    /\ std10(arg.value_values) = 500
    /\ \E v \in ConfidenceValues :
        std10(v) = 0 /\ calculate_confidence(v, arg.hue_values) > ret

WellFormed(entry) ==
    /\ Len(entry.clothing) > 0
    /\ \A i \in DOMAIN entry.clothing : entry.clothing[i][1] = "#"
    /\ {"foundation", "lipstick", "eyeshadow"} \subseteq DOMAIN entry.makeup
    /\ {"metals", "stones"} \subseteq DOMAIN entry.jewelry

C9_FallbackIsMediumNeutral ==
    /\ Returned("generate_recommendations") =>
        /\ ret # KeyError
        /\ ret = IF <<arg.depth, arg.undertone>> \in DOMAIN palettes
                 THEN format_recommendations(palettes[<<arg.depth, arg.undertone>>],
                                             arg.depth, arg.undertone)
                 ELSE generate_recommendations(palettes, "Medium", "Neutral")
    /\ Returned("get_palette") =>
        ret = IF palette_key(arg.depth, arg.undertone) \in DOMAIN ext_palettes
              THEN ext_palettes[palette_key(arg.depth, arg.undertone)]
              ELSE get_palette(ext_palettes, "Medium", "Neutral")

\* C9 amended: for a pair with no exact entry the extended resolver returns
\* exactly what resolving (Medium, Neutral) returns, and the legacy resolver
\* returns the colours, shades and jewelry of resolving (Medium, Neutral) with a
\* clothing description that names the pair asked for; neither raises; for a
\* pair with an exact entry they return that entry.
C9_FallbackButDescription ==
    /\ Returned("generate_recommendations") =>
        /\ ret # KeyError
        /\ IF <<arg.depth, arg.undertone>> \in DOMAIN palettes
           THEN ret = format_recommendations(palettes[<<arg.depth, arg.undertone>>],
                                             arg.depth, arg.undertone)
           ELSE LET fallback == generate_recommendations(palettes, "Medium", "Neutral") IN
                /\ ret.clothing.best_colors = fallback.clothing.best_colors
                /\ ret.makeup = fallback.makeup
                /\ ret.jewelry = fallback.jewelry
                /\ DOMAIN ret = DOMAIN fallback
                /\ DOMAIN ret.clothing = DOMAIN fallback.clothing
                /\ ret.clothing.description =
                    <<"Recommended clothing colors for ", arg.depth, " skin with ",
                      arg.undertone, " undertone">>
    /\ Returned("get_palette") =>
        ret = IF palette_key(arg.depth, arg.undertone) \in DOMAIN ext_palettes
              THEN ext_palettes[palette_key(arg.depth, arg.undertone)]
              ELSE get_palette(ext_palettes, "Medium", "Neutral")

\* (Tan, Olive) has no entry in the legacy table and got the makeup of
\* (Medium, Neutral)
C9_Witness ==
    /\ Returned("generate_recommendations")
    /\ arg.depth = "Tan" /\ arg.undertone = "Olive"
    /\ <<"Tan", "Olive">> \notin DOMAIN palettes
    /\ ret # KeyError
    /\ ret.makeup.foundation.hex_codes = palettes[<<"Medium", "Neutral">>].makeup.foundation

\* the table of the legacy mapping
NearestLegacyDepth(depth) ==
    CASE depth \in {"Very Fair", "Fair"} -> "Fair"
      [] depth \in {"Medium", "Tan"} -> "Medium"
      [] depth \in {"Dark", "Deep"} -> "Dark"

NearestLegacyUndertone(undertone) ==
    CASE undertone \in {"Warm", "Golden"} -> "Warm"
      [] undertone = "Cool" -> "Cool"
      [] undertone \in {"Neutral", "Olive"} -> "Neutral"

\* C10: on each of the 30 extended combinations map_to_legacy returns the pair
\* of the fixed table, a legacy pair, and finds both members in its maps, so
\* neither default is taken.
C10_MapToLegacyTable ==
    (/\ Returned("map_to_legacy")
     /\ arg.depth \in SkinDepth
     /\ arg.undertone \in Undertone) =>
        /\ ret = <<NearestLegacyDepth(arg.depth), NearestLegacyUndertone(arg.undertone)>>
        /\ ret[1] \in LegacyDepths /\ ret[2] \in LegacyUndertones
        /\ arg.depth \in DOMAIN legacy_depth_map
        /\ arg.undertone \in DOMAIN legacy_undertone_map

\* (Tan, Golden) was mapped to (Medium, Warm)
C10_Witness ==
    /\ Returned("map_to_legacy")
    /\ arg.depth = "Tan" /\ arg.undertone = "Golden"
    /\ ret = <<"Medium", "Warm">>

----------------------------------------------------------------------------
(* Claims about the analysis pipeline *)

Invoked(method) == \E i \in DOMAIN calls : calls[i] = method

\* the detector in use finds no face in the image: the primary detector when
\* there is one and it does not raise, the cascade otherwise
NoFaceLocated(image) ==
    IF face_detector # "None" /\ ~raises(image, "process") THEN image.faces = <<>>
    ELSE raises(image, "detectMultiScale") \/ image.cascade = <<>>

\* the face boxes handed to the pipeline for the image
Located(image) == detect_faces(face_detector, image).faces

LaterStages ==
    {"_extract_skin_region", "_classify_depth", "_classify_undertone",
     "_calculate_confidence", "_generate_recommendations"}

\* C11: when no face is located in an image that could be read,
\* analyze_skin_tone returns the 'No face detected' structured error and none
\* of skin extraction, depth and undertone classification, confidence and
\* palette resolution is executed for the request.
C11_NoFaceShortCircuits ==
    (Returned("analyze_skin_tone") /\ arg.image.fault # "cvtColor" /\ NoFaceLocated(arg.image)) =>
        /\ ret = error_response(<<"No face detected in image">>)
        /\ Invoked("_detect_faces")
        /\ \A stage \in LaterStages : ~Invoked(stage)

\* no face was reported for an image with 100 or more skin-coloured pixels
C11_Witness ==
    /\ Returned("analyze_skin_tone")
    /\ arg.image.fault = "none"
    /\ NoFaceLocated(arg.image)
    /\ Cardinality(inRange(arg.image)) >= 100
    /\ ret.message = <<"No face detected in image">>
    /\ calls = <<"_detect_faces", "_error_response">>

\* C12: with a face located, a mask of fewer than 100 pixels, or a failed
\* extraction, gives the insufficient-skin-region error with no classification
\* attempted; a mask of 100 pixels or more goes on to classification; a
\* successful result reports at least 100 skin pixels.
C12_SkinPixelThreshold ==
    /\ (Returned("analyze_skin_tone") /\ ~NoFaceLocated(arg.image)
            /\ arg.image.fault \in {"none", "_extract_skin_region"}) =>
        LET skin == extract_skin_region(arg.image, Located(arg.image)[1]) IN
        IF ~skin.ok \/ Cardinality(skin.mask) <= 99
            THEN /\ ret = error_response(<<"Could not extract sufficient skin region">>)
                 /\ Invoked("_extract_skin_region")
                 /\ \A stage \in LaterStages \ {"_extract_skin_region"} : ~Invoked(stage)
        ELSE /\ Invoked("_classify_depth")
             /\ Invoked("_classify_undertone")
             /\ Succeeded
    /\ (Returned("analyze_skin_tone") /\ Succeeded) =>
        ret.analysis_details.skin_pixels_detected >= 100

\* a mask of exactly 100 pixels was analysed
C12_Witness ==
    /\ Returned("analyze_skin_tone")
    /\ Succeeded
    /\ Cardinality(extract_skin_region(arg.image, Located(arg.image)[1]).mask) = 100
    /\ ret.analysis_details.skin_pixels_detected = 100

\* C13: analyze_skin_tone returns for every input and every failing stage; what
\* it returns is either a result without a status, or the structured error:
\* status 'error', a message, skin_analysis and recommendations None and
\* nothing else.  A stage that raises gives the structured error.
C13_ErrorsAreStructured ==
    Returned("analyze_skin_tone") =>
        /\ "raised" \notin DOMAIN ret
        /\ \/ /\ DOMAIN ret = {"skin_analysis", "recommendations", "analysis_details"}
              /\ DOMAIN ret.skin_analysis = {"depth", "undertone", "confidence"}
              /\ DOMAIN ret.recommendations = {"clothing", "makeup", "jewelry"}
              /\ arg.image.fault \notin {"cvtColor", "_extract_skin_region", "numeric"}
           \/ /\ DOMAIN ret = {"status", "message", "skin_analysis", "recommendations"}
              /\ ret.status = "error"
              /\ ret.message # <<>>
              /\ ret.skin_analysis = "None"
              /\ ret.recommendations = "None"
              /\ Invoked("_error_response")

\* the arithmetic after a sufficient mask raised, and the error was returned
C13_Witness ==
    /\ Returned("analyze_skin_tone")
    /\ arg.image.fault = "numeric"
    /\ Invoked("_extract_skin_region")
    /\ ret.status = "error"
    /\ ret.message[1] = "Analysis failed: "

\* the fixtures' images: a rectangle of one colour, of 100 pixels or more, on a
\* white background, with a face box reported for it
Scenario(skin_color) ==
    /\ Returned("analyze_skin_tone")
    /\ arg.image.fault = "none"
    /\ arg.image.fg = skin_color
    /\ arg.image.bg = white
    /\ (arg.image.r1 - arg.image.r0) * (arg.image.c1 - arg.image.c0) >= 100
    /\ ~NoFaceLocated(arg.image)

\* C14: Scenario A: a face region of uniform RGB (210, 180, 140) on white, with
\* a face box over it and 100 pixels or more, is analysed successfully as
\* Medium, Warm or Neutral, with a confidence above 0.
C14_ScenarioA ==
    Scenario(synthetic_skin_color) =>
        /\ Succeeded
        /\ ret.skin_analysis.depth = "Medium"
        /\ ret.skin_analysis.undertone \in {"Warm", "Neutral"}
        /\ ret.skin_analysis.confidence > 0

\* C15: Scenario B: a face region of uniform RGB (100, 75, 60) on white, with a
\* face box over it and 100 pixels or more, is analysed successfully as Dark.
C15_ScenarioB ==
    Scenario(synthetic_dark_skin_color) =>
        /\ Succeeded
        /\ ret.skin_analysis.depth = "Dark"

----------------------------------------------------------------------------
(* Claims about the extended enumerations *)

\* level and percentile band of each extended depth, lightest first
DepthBands ==
    [d \in SkinDepth |->
        CASE d = "Very Fair" -> [level |-> 1, band |-> <<82, 100>>]
          [] d = "Fair" -> [level |-> 2, band |-> <<71, 82>>]
          [] d = "Medium" -> [level |-> 3, band |-> <<55, 71>>]
          [] d = "Tan" -> [level |-> 4, band |-> <<39, 55>>]
          [] d = "Dark" -> [level |-> 5, band |-> <<24, 39>>]
          [] d = "Deep" -> [level |-> 6, band |-> <<0, 24>>]]

\* the arrays whose first sample is at most one away from that of value_values
Neighbours(value_values) ==
    { v \in Ramps((value_values.a - 1)..(value_values.a + 1), {1}) :
        v.a >= 0 /\ (IF v.q = 0 THEN v.a ELSE v.b) <= 255 }

\* C16: _classify_depth_extended returns the level and the percentile band of
\* the depth it returns, as the table gives them; a mean Value of 215 gives
\* Very Fair, level 1, band (82, 100); a smaller mean Value never gives a
\* smaller level (each array is compared with all the arrays next to it, which
\* chains over the whole range).
C16_DepthLevelsAndBands ==
    Returned("classify_depth_extended") =>
        /\ ret.depth \in SkinDepth
        /\ ret.level = DepthBands[ret.depth].level
        /\ ret.percentile = DepthBands[ret.depth].band
        /\ mean(arg.value_values) = <<215, 1>> =>
                ret = [depth |-> "Very Fair", level |-> 1, percentile |-> <<82, 100>>]
        /\ \A v \in Neighbours(arg.value_values) :
                mean(v)[1] * mean(arg.value_values)[2] <= mean(arg.value_values)[1] * mean(v)[2]
                    => classify_depth_extended(v).level >= ret.level

\* a mean Value of 215 was classified, and a darker neighbour has a higher level
C16_Witness ==
    /\ Returned("classify_depth_extended")
    /\ arg.value_values = [a |-> 215, b |-> 216, p |-> 1, q |-> 0, m |-> 1]
    /\ ret.level = 1
    /\ \E v \in ValueArrays : v.a = 210 /\ classify_depth_extended(v).level = 2

\* C17: is_cool_spectrum is true exactly for Cool and Olive, is_warm_spectrum
\* exactly for Warm and Golden; Neutral is in neither and no undertone is in
\* both.  Checked on the undertone every extended classification returns and
\* on the tag it returns with it.
C17_SpectrumTags ==
    Returned("classify_undertone_extended") =>
        /\ ret.undertone \in Undertone
        /\ ret.is_cool = is_cool_spectrum(ret.undertone)
        /\ is_cool_spectrum(ret.undertone) = (ret.undertone \in {"Cool", "Olive"})
        /\ is_warm_spectrum(ret.undertone) = (ret.undertone \in {"Warm", "Golden"})
        /\ ret.undertone = "Neutral" =>
                ~is_cool_spectrum(ret.undertone) /\ ~is_warm_spectrum(ret.undertone)
        /\ ~(is_cool_spectrum(ret.undertone) /\ is_warm_spectrum(ret.undertone))

\* an Olive undertone was returned with the cool tag
C17_Witness ==
    /\ Returned("classify_undertone_extended")
    /\ ret.undertone = "Olive"
    /\ ret.is_cool
    /\ ~is_warm_spectrum(ret.undertone)

----------------------------------------------------------------------------
(* Claims about requests served one after another *)

C19_ResultsAreFresh ==
    /\ (Returned("analyze_skin_tone") /\ Succeeded) => aliases = {}
    /\ palettes = initialize_color_palettes
    /\ Returned("analyze_skin_tone") =>
            ret = analyze_skin_tone(initialize_color_palettes, face_detector, arg.image).response

----------------------------------------------------------------------------
(* Claims about the /analyze-skin handler *)

\* the step of the handler that raises has nothing to do with the image
UnexpectedFault(file) == file.fault \in {"read", "array"}

\* C20: the handler answers 400 for a content type other than JPEG or PNG,
\* 413 for a payload above 5 MiB (exactly 5 MiB is accepted), 422 for a
\* structured error of the pipeline, 500 for an unexpected fault in the
\* handler, and 200 with success = true only when the pipeline produced a
\* successful analysis.
C20_StatusCodes ==
    Returned("analyze_skin") =>
        LET file == arg.file
            results == analyze_skin_tone(palettes, face_detector, file.image).response
            accepted == file.content_type \in {"image/jpeg", "image/png", "image/jpg"}
            reached == accepted /\ file.size <= 5242880 /\ file.fault = "none"
        IN  /\ ~accepted => ret.status_code = 400
            /\ (accepted /\ file.fault # "read" /\ file.size > 5242880) => ret.status_code = 413
            /\ (accepted /\ file.size = 5242880) => ret.status_code # 413
            /\ (reached /\ "status" \in DOMAIN results) => ret.status_code = 422
            /\ (accepted /\ UnexpectedFault(file)
                    /\ (file.fault = "array" => file.size <= 5242880)) => ret.status_code = 500
            /\ ret.status_code = 200 =>
                    /\ ret.success
                    /\ reached
                    /\ "status" \notin DOMAIN results
                    /\ ret.recommendations = results.recommendations

\* how many times the method was invoked
Count(method) == Cardinality({ i \in DOMAIN calls : calls[i] = method })

PrimaryUnavailableOrRaised(image) ==
    face_detector = "None" \/ raises(image, "process")

\* C21: in a request that reaches face detection, _detect_faces runs once and
\* the cascade at most once; the cascade runs exactly when the primary detector
\* is missing or raised; a primary detector that returns normally with no face
\* is not followed by the cascade and the request ends with 'No face detected';
\* no classification stage runs more than once.
C21_FallbackPolicy ==
    (Returned("analyze_skin_tone") /\ arg.image.fault # "cvtColor") =>
        /\ Count("_detect_faces") = 1
        /\ Count("_detect_faces_cascade") <= 1
        /\ Invoked("_detect_faces_cascade") <=> PrimaryUnavailableOrRaised(arg.image)
        /\ (~PrimaryUnavailableOrRaised(arg.image) /\ arg.image.faces = <<>>) =>
                ret = error_response(<<"No face detected in image">>)
        /\ \A stage \in LaterStages : Count(stage) <= 1

\* the primary detector returned no face for an image in which the cascade
\* would have found one, and the request ended without the cascade
C21_Witness ==
    /\ Returned("analyze_skin_tone")
    /\ face_detector = "FaceDetection"
    /\ arg.image.fault = "none"
    /\ arg.image.faces = <<>>
    /\ arg.image.cascade # <<>>
    /\ calls = <<"_detect_faces", "_error_response">>

\* the primary detector raised, the cascade found the face and the request was
\* analysed
C21_FallbackSucceeded ==
    /\ Returned("analyze_skin_tone")
    /\ face_detector = "FaceDetection"
    /\ arg.image.fault = "process"
    /\ Invoked("_detect_faces_cascade")
    /\ Succeeded

\* the box and its padding of a fifth of its width and height lie in the image
WellInside(image, box) ==
    /\ box.width > 0 /\ box.height > 0
    /\ 5 * box.x - box.width >= 0
    /\ 5 * box.y - box.height >= 0
    /\ 5 * box.x + 6 * box.width <= 5 * image.w
    /\ 5 * box.y + 6 * box.height <= 5 * image.h

\* C22: for a face box (x, y, w, h) well inside the image, the region that
\* _extract_skin_region keeps spans the columns from x - 0.2w to x + w + 0.2w
\* and the rows from y - 0.2h to y + h + 0.2h (whole pixels, as int() gives them).
C22_PaddedRegion ==
    (Returned("extract_skin_region") /\ ret.ok /\ WellInside(arg.image, arg.face_box)) =>
        LET box == arg.face_box IN
        /\ ret.skin_region.x = int(<<5 * box.x - box.width, 5>>)
        /\ ret.skin_region.x2 = int(<<5 * box.x + 6 * box.width, 5>>)
        /\ ret.skin_region.y = int(<<5 * box.y - box.height, 5>>)
        /\ ret.skin_region.y2 = int(<<5 * box.y + 6 * box.height, 5>>)

\* what the code keeps for such a box: the padding on the left and above, and
\* the box itself, ending where the box ends (to within the pixel int() drops)
C22_RegionEndsWithBox ==
    (Returned("extract_skin_region") /\ ret.ok /\ WellInside(arg.image, arg.face_box)) =>
        LET box == arg.face_box IN
        /\ ret.skin_region.x = int(<<5 * box.x - box.width, 5>>)
        /\ ret.skin_region.y = int(<<5 * box.y - box.height, 5>>)
        /\ ret.skin_region.x2 \in {box.x + box.width - 1, box.x + box.width}
        /\ ret.skin_region.y2 \in {box.y + box.height - 1, box.y + box.height}

\* the face box with a fifth of its width added on the left and on the right
\* and a fifth of its height above and below, clipped to the image
PaddedBox(image, box) ==
    [x |-> Max2(0, int(<<5 * box.x - box.width, 5>>)),
     x2 |-> Min2(image.w, int(<<5 * box.x + 6 * box.width, 5>>)),
     y |-> Max2(0, int(<<5 * box.y - box.height, 5>>)),
     y2 |-> Min2(image.h, int(<<5 * box.y + 6 * box.height, 5>>))]

InRegion(region, px) ==
    /\ region.y <= px[1] /\ px[1] < region.y2
    /\ region.x <= px[2] /\ px[2] < region.x2

\* C23: the mask _extract_skin_region returns lies in the image, is 0 at every
\* pixel outside the padded, clipped face region and has the value of the
\* filtered mask (range filter, closing, opening) at every pixel inside it, for
\* every face box, those over and beyond the image's edges included.
C23_MaskWithinPaddedRegion ==
    (Returned("extract_skin_region") /\ ret.ok) =>
        \E filtered \in {filtered_mask(arg.image)} :
            LET region == PaddedBox(arg.image, arg.face_box) IN
            /\ ret.mask \subseteq shape(arg.image)
            /\ \A px \in shape(arg.image) :
                    IF InRegion(region, px) THEN (px \in ret.mask <=> px \in filtered)
                    ELSE px \notin ret.mask

\* the same of the region the code keeps, image[y:y2, x:x2]
C23_MaskWithinKeptRegion ==
    (Returned("extract_skin_region") /\ ret.ok) =>
        \E filtered \in {filtered_mask(arg.image)} :
            /\ ret.mask \subseteq shape(arg.image)
            /\ \A px \in shape(arg.image) :
                    IF InRegion(ret.skin_region, px) THEN (px \in ret.mask <=> px \in filtered)
                    ELSE px \notin ret.mask

FaceBoxesHandedOver ==
    IF Returned("detect_faces") THEN { ret[i] : i \in DOMAIN ret }
    ELSE IF Returned("analyze_skin_tone") /\ arg.image.fault # "cvtColor"
        THEN { Located(arg.image)[i] : i \in DOMAIN Located(arg.image) }
    ELSE {}

\* C24: every face box the face locator returns, from the primary detector or
\* from the cascade, has x, y, width and height of 0 or more, lies within the
\* image (x + width <= image width, y + height <= image height) and has a
\* confidence between 0 and 1 (in tenths: 0 to 10).
C24_FaceBoxWithinImage ==
    \A box \in FaceBoxesHandedOver :
        /\ box.x >= 0 /\ box.y >= 0
        /\ box.width >= 0 /\ box.height >= 0
        /\ box.x + box.width <= arg.image.w
        /\ box.y + box.height <= arg.image.h
        /\ 0 <= box.confidence /\ box.confidence <= 10

\* what does hold of them: the origin is in the image's quadrant, the size is
\* that of the reported box, the confidence is between 0 and 1
C24_OriginClamped ==
    \A box \in FaceBoxesHandedOver :
        /\ box.x >= 0 /\ box.y >= 0
        /\ box.width >= 0 /\ box.height >= 0
        /\ 0 <= box.confidence /\ box.confidence <= 10

\* hue samples as OpenCV gives them for 8-bit images: 0 to 179
OpenCVHues(hue_values) ==
    /\ hue_values.a \in 0..179
    /\ hue_values.q = 0 \/ hue_values.b \in 0..179

\* C25: the mean hue _classify_undertone returns with the undertone, and that
\* analyze_skin_tone reports as analysis_details.undertone_hue (to one decimal,
\* here in tenths), is a number of degrees in [0, 360): never negative, never
\* 360 or more.
C25_MeanHueNormalized ==
    /\ (Returned("classify_undertone") /\ OpenCVHues(arg.hue_values)) =>
            GE(ret.mean_hue, 0) /\ LT(ret.mean_hue, 360)
    /\ (Returned("analyze_skin_tone") /\ Succeeded) =>
            0 <= ret.analysis_details.undertone_hue /\ ret.analysis_details.undertone_hue < 3600

\* what holds instead: the mean hue returned lies in (-180, 180], and it is
\* the mean hue in degrees, less 360 when that is above 180
C25_MeanHueSigned ==
    (Returned("classify_undertone") /\ OpenCVHues(arg.hue_values)) =>
        LET h == Degrees(arg.hue_values) IN
        /\ GT(ret.mean_hue, -180) /\ LE(ret.mean_hue, 180)
        /\ ret.mean_hue = IF GT(h, 180) THEN <<h[1] - 360 * h[2], h[2]>> ELSE h

\* C26: for every mean Value v in [0, 255] and mean hue h in [0, 360),
\* map_to_legacy of the extended classification (SkinDepth.from_value(v),
\* Undertone.from_hue(h)) is the legacy classification (_classify_depth of v,
\* _classify_undertone of h).
C26_LegacyConsistent ==
    Returned("classify_both_ways") =>
        LET v == mean(arg.value_values)
            h == Degrees(arg.hue_values)
        IN  map_to_legacy(from_value(Trunc(v)), from_hue(h)) = ret.legacy

\* where the two disagree: the depth for v in (100, 115] and in (166, 180], the
\* undertone for h in (30, 35], in (90, 120] and in (180, 330); they agree
\* everywhere else
C26_Disagreements ==
    Returned("classify_both_ways") =>
        LET v == mean(arg.value_values)
            h == Degrees(arg.hue_values)
        IN
        /\ ret.mapped[1] # ret.legacy[1] <=>
                \/ GT(v, 100) /\ LE(v, 115)
                \/ GT(v, 166) /\ LE(v, 180)
        /\ ret.mapped[2] # ret.legacy[2] <=>
                \/ GT(h, 30) /\ LE(h, 35)
                \/ GT(h, 90) /\ LE(h, 120)
                \/ GT(h, 180) /\ LT(h, 330)

\* C27: in every response of generate_extended_response, depthLevel and
\* depthPercentile are the level and the percentile band of the extendedDepth
\* reported beside them, whatever the depth and the brightness passed in.
C27_LevelOfReportedDepth ==
    Returned("generate_extended_response") =>
        LET new == ret.skinAnalysis._NEW_
            band == get_percentile(new.extendedDepth)
        IN
        /\ new.extendedDepth = arg.depth
        /\ new.depthLevel = get_level(new.extendedDepth)
        /\ new.depthPercentile = <<band[1], "-", band[2], "%">>

\* what they are: the level and band of the depth that brightness * 255,
\* cut to a whole number, falls in
C27_LevelOfBrightness ==
    Returned("generate_extended_response") =>
        LET new == ret.skinAnalysis._NEW_
            depth == from_value((255 * arg.brightness[1]) \div arg.brightness[2])
            band == get_percentile(depth)
        IN
        /\ new.extendedDepth = arg.depth
        /\ new.depthLevel = get_level(depth)
        /\ new.depthPercentile = <<band[1], "-", band[2], "%">>

Characteristics == ret.skinAnalysis._NEW_.skinCharacteristics

\* C29: in every response of generate_extended_response, undertoneBalance is
\* 'Warm dominant' exactly when isWarmDominant is true and 'Cool dominant'
\* exactly when the undertone is of the cool spectrum; a Neutral undertone is
\* reported as neither.
C29_CharacteristicsConsistent ==
    Returned("generate_extended_response") =>
        /\ Characteristics.undertoneBalance = <<"Warm", " dominant">>
                <=> Characteristics.isWarmDominant
        /\ Characteristics.undertoneBalance = <<"Cool", " dominant">>
                <=> is_cool_spectrum(arg.undertone)
        /\ arg.undertone = "Neutral" =>
                Characteristics.undertoneBalance \notin
                    {<<"Warm", " dominant">>, <<"Cool", " dominant">>}

\* what is reported: 'Cool dominant' for Cool and Olive and 'Warm dominant'
\* for every other undertone, Neutral included; isWarmDominant for Warm and
\* Golden alone
C29_BalanceIsCoolOrWarm ==
    Returned("generate_extended_response") =>
        /\ Characteristics.undertoneBalance =
                <<IF arg.undertone \in {"Cool", "Olive"} THEN "Cool" ELSE "Warm", " dominant">>
        /\ Characteristics.isWarmDominant <=> arg.undertone \in {"Warm", "Golden"}
        /\ Characteristics.hasOliveUndertones <=> arg.undertone = "Olive"

\* C30: for every hue h in [0, 360), h lies in the inclusive range
\* get_hue_range() of Undertone.from_hue(h); that range is the one of
\* UNDERTONE_HUE_RANGES and the undertoneHueRange of the extended response.
C30_RangeContainsHue ==
    /\ Returned("classify_undertone_extended") =>
            LET range == get_hue_range(ret.undertone) IN
            /\ range = UNDERTONE_HUE_RANGES[ret.undertone]
            /\ GE(ret.mean_hue, range[1]) /\ LE(ret.mean_hue, range[2])
    /\ Returned("generate_extended_response") =>
            ret.skinAnalysis._NEW_.undertoneHueRange = UNDERTONE_HUE_RANGES[arg.undertone]

\* the hues outside the range of their undertone are those above 120 and
\* below 330, which from_hue calls Neutral; elsewhere the range contains the hue
C30_RangeMissesDefaultNeutral ==
    Returned("classify_undertone_extended") =>
        LET range == get_hue_range(ret.undertone)
            h == ret.mean_hue
        IN
        /\ range = UNDERTONE_HUE_RANGES[ret.undertone]
        /\ (GE(h, range[1]) /\ LE(h, range[2])) <=> ~(GT(h, 120) /\ LT(h, 330))
        /\ (GT(h, 120) /\ LT(h, 330)) => ret.undertone = "Neutral"

\* every pixel of the mask passed the range filter: closing added none
MaskInsideFilterRange(image) ==
    extract_skin_region(image, Located(image)[1]).mask \subseteq inRange(image)

\* the depth and undertone of every image that the analyzer analyses
\* successfully from pixels inside the filter range
PipelineOutcomes ==
    LET analysed ==
            { [image |-> image,
               response |-> analyze_skin_tone(palettes, face_detector, image).response] :
                image \in Images }
        clean == { a \in analysed :
                    "status" \notin DOMAIN a.response /\ MaskInsideFilterRange(a.image) }
    IN  { <<a.response.skin_analysis.depth, a.response.skin_analysis.undertone>> : a \in clean }

\* C28: the pipeline reaches all three legacy depths: among the images whose
\* masked pixels all lie inside the filter range there is one that
\* analyze_skin_tone returns as Fair, one it returns as Medium and one it
\* returns as Cool; the outcome is not confined to Dark with Warm or Neutral.
C28_AllDepthsReachable ==
    /\ \E outcome \in PipelineOutcomes : outcome[1] = "Fair"
    /\ \E outcome \in PipelineOutcomes : outcome[1] = "Medium"
    /\ \E outcome \in PipelineOutcomes : outcome[2] = "Cool"
    /\ ~(PipelineOutcomes \subseteq {"Dark"} \X {"Warm", "Neutral"})

\* what holds: a request analysed from pixels inside the filter range is Dark,
\* and Warm or Neutral; and so is every array of Values within [25, 95] and of
\* hues within [0, 50] given to the classifiers themselves
C28_ConfinedToDark ==
    /\ (Returned("analyze_skin_tone") /\ Succeeded /\ MaskInsideFilterRange(arg.image)) =>
            /\ ret.skin_analysis.depth = "Dark"
            /\ ret.skin_analysis.undertone \in {"Warm", "Neutral"}
    /\ (Returned("classify_depth")
            /\ arg.value_values.a \in SKIN_HSV_MIN[3]..SKIN_HSV_MAX[3]
            /\ (arg.value_values.q = 0 \/ arg.value_values.b \in SKIN_HSV_MIN[3]..SKIN_HSV_MAX[3])) =>
            ret = "Dark"
    /\ (Returned("classify_undertone")
            /\ arg.hue_values.a \in SKIN_HSV_MIN[1]..SKIN_HSV_MAX[1]
            /\ (arg.hue_values.q = 0 \/ arg.hue_values.b \in SKIN_HSV_MIN[1]..SKIN_HSV_MAX[1])) =>
            ret.undertone \in {"Warm", "Neutral"}

\* requests were analysed from pixels inside the filter range
C28_SomeAnalysed ==
    /\ Returned("analyze_skin_tone") /\ Succeeded /\ MaskInsideFilterRange(arg.image)
    /\ ret.skin_analysis.depth = "Dark"

====
